---- MODULE Spec2Model ----
(***************************************************************************)
(* Model of the danmu collection service (rust-srec/src/danmu/service.rs). *)
(*                                                                         *)
(* DanmuService keeps a registry `collections` (session_id ->              *)
(* CollectionState) and a reverse index `sessions_by_streamer`             *)
(* (streamer_id -> session_id), both DashMaps shared between the callers   *)
(* of start_collection / stop_collection / shutdown and the tasks spawned  *)
(* by start_collection.  Every DashMap operation, channel operation and    *)
(* broadcast send is one atomic step; the steps of different callers and   *)
(* tasks interleave freely (tokio multi-thread runtime).                   *)
(***************************************************************************)
EXTENDS Integers, Sequences, FiniteSets, TLC

(* ----------------------------- bounds --------------------------------- *)

\* Number of start_collection invocations explored.
NumCalls == 2

\* Number of stop_collection invocations made directly by users (shutdown
\* makes its own).
NumStops == 1

(* ---------------------------- constants ------------------------------- *)

\* mpsc::channel(32): capacity of the per-session command channel.
CommandCapacity == 32

\* DashMap lookup / remove that finds no entry (None).
NoEntry == 0

NoSession == "none"

NoStreamer == "none"

SessionIds == {"s1", "s2"}

StreamerIds == {"st1", "st2"}

FirstSession == "s1"

FirstStreamer == "st1"

\* Outcome of provider lookup and room id extraction for the given URL.
Urls == {"ok", "no_provider", "no_room_id"}

Calls == 1..NumCalls

\* The stop_collection invocation made from shutdown's loop.
ShutdownStop == 0

UserStops == 1..NumStops

StopCallers == {ShutdownStop} \cup UserStops

(* ------------------------------ state --------------------------------- *)

VARIABLES
    collections,           \* session_id -> registered start (NoEntry if none)
    sessions_by_streamer,  \* streamer_id -> session_id (NoSession if none)
    events,                \* per session_id: what event_tx sent for it, in order
    persisted,             \* the persist_statistics calls made
    cancel_token,          \* the service's global token is cancelled
    call,                  \* per start_collection invocation: its position
    task,                  \* per start_collection invocation: its spawned task
    ready,                 \* per start: the ready oneshot
    done,                  \* per start: the done oneshot
    child_cancelled,       \* per start: its child token was cancelled directly
    command_ch,            \* per start: commands queued in the mpsc channel
    command_closed,        \* per start: command_rx was dropped
    handle,                \* per start: what the last command sent through
                           \* its CollectionHandle returned
    stop,                  \* per stop_collection invocation: its position
    shutdown,              \* the shutdown invocation: its position
    \* StatisticsAggregator (crates/platforms/src/danmaku/statistics.rs)
    aggregator,            \* "new", "live", "tables" (the two heavy-hitter
                           \* tables used on their own) or "finalized"
    total_count,
    chat_count,
    gift_count,
    talker_hh,             \* TalkerHeavyHitters: [capacity, counters]
    word_hh,               \* WordHeavyHitters: [capacity, counters, sketch]
    rate_data,             \* sequence of RateDataPoint
    current_bucket,        \* Option<(start, count)>: <<>> or <<[start, count]>>
    bucket_duration_secs,
    start_time,            \* Option: <<>> or <<timestamp>>
    max_top_talkers,
    max_words,
    max_rate_points,
    hash,                  \* what hash_with_seed(word, row) % width gives
    stats_out,             \* the DanmuStatistics returned last: <<>> or <<stats>>
    calls,                 \* record_message calls so far, by is_gift
    talker_calls,          \* per user_id: increments since the table was made
    word_calls,            \* per word: increments since the table was made
    \* CompressionProcessor::process
    output_file,           \* what the output path holds: 0 for no file, n for
                           \* the archive the n-th call of process published
    tmp_file,              \* the file at tmp_path: "none", "partial", "complete"
    job,                   \* the call of process: its input and its position
    worker,                \* the spawn_blocking closure: its position
    cancel                 \* the child token of the call is cancelled

serviceVars == <<collections, sessions_by_streamer, events, persisted,
                 cancel_token, call, task, ready, done, child_cancelled,
                 command_ch, command_closed, handle, stop, shutdown>>

aggregatorVars == <<aggregator, total_count, chat_count, gift_count, talker_hh,
                    word_hh, rate_data, current_bucket, bucket_duration_secs,
                    start_time, max_top_talkers, max_words, max_rate_points,
                    hash, stats_out, calls, talker_calls, word_calls>>

\* CompressionProcessor (rust-srec/src/pipeline/processors/compression.rs)
compressionVars == <<output_file, tmp_file, job, worker, cancel>>

vars == <<serviceVars, aggregatorVars, compressionVars>>

registryVars == <<collections, sessions_by_streamer>>

outputVars == <<events, persisted>>

channelVars == <<ready, done, child_cancelled, command_ch, command_closed>>

(* ============ statistics: heavy hitters, sketch, aggregator =========== *)

\* user_id, username and word values, and the order of the keys (String::cmp).
Users == {"u1", "u2", "u3"}

Usernames == {"n1", "n2"}

\* "zi" stands for a word of one character outside ASCII, such as a CJK
\* character: 3 bytes in UTF-8.
Words == {"w1", "w2", "w3", "zi"}

KeyOrder == <<"u1", "u2", "u3", "w1", "w2", "w3", "zi">>

KeyRank(key) == CHOOSE r \in DOMAIN KeyOrder : KeyOrder[r] = key

\* The pieces content.split(..) yields: words, one of them of a single
\* character of several bytes, a word in upper case, a word of one letter, a
\* stop word.
Tokens == Words \cup {"W1", "x", "the"}

ToLowercase(token) == IF token = "W1" THEN "w1" ELSE token

\* str::len: the length of the token in bytes.
ByteLen(token) ==
    IF token = "x" THEN 1 ELSE IF token \in {"the", "zi"} THEN 3 ELSE 2

\* The length of the token in characters.
CharLen(token) ==
    IF token \in {"x", "zi"} THEN 1 ELSE IF token = "the" THEN 3 ELSE 2

\* The tokens with word_lower.len() < 2.
ShortWords == {token \in Tokens : ByteLen(token) < 2}

StopWords == {"the"}

Timestamps == {-5, 3, 12}

BucketDurations == {10}

\* The cells of a sketch row that the words hash to, and the rows of the
\* deepest sketch.
Cells == {0, 1, 2, 3}

Rows == {0, 1, 2, 3}

WordCell(word) == KeyRank(word) - KeyRank("w1")

\* What hash_with_seed(word, row) % width can be for the three words: no two
\* words share a cell; all share one cell in every row; they share a cell in
\* row 0 only; w3 shares the cells of w1 in every row.
HashChoices ==
    { [r \in Rows |-> [w \in Words |-> WordCell(w)]],
      [r \in Rows |-> [w \in Words |-> 0]],
      [r \in Rows |-> [w \in Words |-> IF r = 0 THEN 0 ELSE WordCell(w)]],
      [r \in Rows |-> [w \in Words |-> IF w = "w3" THEN 0 ELSE WordCell(w)]] }

DefaultHash == [r \in Rows |-> [w \in Words |-> WordCell(w)]]

MaxOf(a, b) == IF a >= b THEN a ELSE b

MinOf(a, b) == IF a <= b THEN a ELSE b

MinOfSet(S) == CHOOSE m \in S : \A x \in S : m <= x

\* The width of the u64 counters, scaled down, and u64::MAX.
CounterBits == 3

U64Max == 2^CounterBits - 1

\* u64::saturating_add
SaturatingAdd(a, b) == IF a + b > U64Max THEN U64Max ELSE a + b

\* a + b on u64 in a build without overflow checks: it wraps. A build with
\* overflow checks panics instead (RecordMessageOverflow).
WrappingAdd(a, b) == (a + b) % (U64Max + 1)

\* A HashMap with no entry.
NoCounters == [k \in {} |-> 0]

Remove(counters, key) == [k \in DOMAIN counters \ {key} |-> counters[k]]

\* TalkerHeavyHitters::new
TalkerNew(capacity) ==
    [capacity |-> MaxOf(capacity, 1), counters |-> NoCounters]

\* The keys an eviction that takes any entry can remove.
MinKeysAny(counters) == DOMAIN counters

\* The keys min_by_key(|(_, counter)| counter.count) can return: the first
\* entry of minimal count in the HashMap's iteration order, which is any
\* entry of minimal count.
MinKeys(counters) ==
    {k \in DOMAIN counters :
        \A j \in DOMAIN counters : counters[k].count <= counters[j].count}

\* increment that admits a new key without evicting an entry.
TalkerIncrementKeepingAll(hh, user_id, username) ==
    IF user_id \in DOMAIN hh.counters
       THEN {[hh EXCEPT !.counters[user_id].count = SaturatingAdd(@, 1),
                        !.counters[user_id].username = username]}
       ELSE {[hh EXCEPT !.counters =
                 (user_id :> [username |-> username, count |-> 1, error |-> 0]) @@ @]}

\* TalkerHeavyHitters::increment whose admitted entry starts at count 1, as
\* an entry of a table with room does.
TalkerIncrementAdmittedAtOne(hh, user_id, username) ==
    IF user_id \in DOMAIN hh.counters
       THEN {[hh EXCEPT !.counters[user_id].count = SaturatingAdd(@, 1),
                        !.counters[user_id].username = username]}
    ELSE IF Cardinality(DOMAIN hh.counters) < hh.capacity
       THEN {[hh EXCEPT !.counters =
                 (user_id :> [username |-> username, count |-> 1, error |-> 0]) @@ @]}
    ELSE {[hh EXCEPT !.counters =
              (user_id :> [username |-> username,
                           count |-> 1,
                           error |-> hh.counters[key].count])
                 @@ Remove(@, key)] : key \in MinKeys(hh.counters)}

\* TalkerHeavyHitters::increment: the tables it can leave.
TalkerIncrement(hh, user_id, username) ==
    IF user_id \in DOMAIN hh.counters
       THEN {[hh EXCEPT !.counters[user_id].count = SaturatingAdd(@, 1),
                        !.counters[user_id].username = username]}
    ELSE IF Cardinality(DOMAIN hh.counters) < hh.capacity
       THEN {[hh EXCEPT !.counters =
                 (user_id :> [username |-> username, count |-> 1, error |-> 0]) @@ @]}
    ELSE {[hh EXCEPT !.counters =
              (user_id :> [username |-> username,
                           count |-> SaturatingAdd(hh.counters[key].count, 1),
                           error |-> hh.counters[key].count])
                 @@ Remove(@, key)] : key \in MinKeys(hh.counters)}

\* The comparator of TalkerHeavyHitters::top_n: a sorts before b.
TalkerBefore(counters, aid, bid) ==
    LET a == counters[aid]
        b == counters[bid]
    IN \/ b.count < a.count
       \/ /\ b.count = a.count
          /\ \/ KeyRank(aid) < KeyRank(bid)
             \/ KeyRank(aid) = KeyRank(bid) /\ a.error < b.error

\* entries.sort_by(..): the keys in S, sorted; before[<<a, b>>] says that a
\* sorts before b.
RECURSIVE SortBy(_, _)
SortBy(S, before) ==
    IF S = {} THEN <<>>
    ELSE LET first == CHOOSE a \in S : \A b \in S \ {a} : before[<<a, b>>]
         IN <<first>> \o SortBy(S \ {first}, before)

\* entries.truncate(n)
Truncate(seq, n) == SubSeq(seq, 1, MinOf(n, Len(seq)))

\* TalkerHeavyHitters::top_n
TalkerTopN(hh, n) ==
    IF n = 0 \/ DOMAIN hh.counters = {}
       THEN <<>>
       ELSE LET keys == DOMAIN hh.counters
                before == [p \in keys \X keys |->
                             TalkerBefore(hh.counters, p[1], p[2])]
                entries == Truncate(SortBy(keys, before), n)
            IN [i \in DOMAIN entries |->
                  [user_id |-> entries[i],
                   username |-> hh.counters[entries[i]].username,
                   message_count |-> hh.counters[entries[i]].count]]

\* TalkerHeavyHitters::into_top_n
TalkerIntoTopN(hh, n) ==
    IF n = 0 \/ DOMAIN hh.counters = {}
       THEN <<>>
       ELSE LET keys == DOMAIN hh.counters
                before == [p \in keys \X keys |->
                             TalkerBefore(hh.counters, p[1], p[2])]
                entries == Truncate(SortBy(keys, before), n)
            IN [i \in DOMAIN entries |->
                  [user_id |-> entries[i],
                   username |-> hh.counters[entries[i]].username,
                   message_count |-> hh.counters[entries[i]].count]]

\* CountMinSketch::new; the width is not kept, the cells are those the words
\* hash to.
SketchNew(depth) ==
    [depth |-> MaxOf(depth, 2),
     rows |-> [r \in 0..(MaxOf(depth, 2) - 1) |-> [c \in Cells |-> 0]]]

\* increment that counts in the first row only.
SketchIncrementFirstRow(sketch, value, inc) ==
    [sketch EXCEPT !.rows[0][hash[0][value]] = SaturatingAdd(@, inc)]

\* CountMinSketch::increment
SketchIncrement(sketch, value, inc) ==
    [sketch EXCEPT !.rows =
        [r \in DOMAIN @ |-> [@[r] EXCEPT ![hash[r][value]] = SaturatingAdd(@, inc)]]]

\* CountMinSketch::estimate
SketchEstimate(sketch, value) ==
    MinOfSet({U64Max} \cup {sketch.rows[r][hash[r][value]] : r \in DOMAIN sketch.rows})

\* WordHeavyHitters::new; sketch is <<>> (None) or <<sketch>> (Some).
WordNew(capacity, sketch) ==
    [capacity |-> MaxOf(capacity, 1), counters |-> NoCounters, sketch |-> sketch]

\* increment that starts the key admitted by an eviction at count 1.
WordIncrementFromOne(hh, word) ==
    LET sketch == IF hh.sketch # <<>>
                     THEN <<SketchIncrement(hh.sketch[1], word, 1)>>
                     ELSE <<>>
    IN IF word \in DOMAIN hh.counters
          THEN {[hh EXCEPT !.sketch = sketch, !.counters[word].count = SaturatingAdd(@, 1)]}
       ELSE IF Cardinality(DOMAIN hh.counters) < hh.capacity
          THEN {[hh EXCEPT !.sketch = sketch,
                           !.counters = (word :> [count |-> 1, error |-> 0]) @@ @]}
       ELSE {[hh EXCEPT !.sketch = sketch,
                        !.counters =
                           (word :> [count |-> 1, error |-> hh.counters[key].count])
                              @@ Remove(@, key)] : key \in MinKeys(hh.counters)}

\* WordHeavyHitters::increment: the tables it can leave.
WordIncrement(hh, word) ==
    LET sketch == IF hh.sketch # <<>>
                     THEN <<SketchIncrement(hh.sketch[1], word, 1)>>
                     ELSE <<>>
        cms_count == IF sketch # <<>> THEN SketchEstimate(sketch[1], word) ELSE 0
    IN IF word \in DOMAIN hh.counters
          THEN {[hh EXCEPT !.sketch = sketch, !.counters[word].count = SaturatingAdd(@, 1)]}
       ELSE IF Cardinality(DOMAIN hh.counters) < hh.capacity
          THEN {[hh EXCEPT !.sketch = sketch,
                           !.counters = (word :> [count |-> 1, error |-> 0]) @@ @]}
       ELSE {[hh EXCEPT !.sketch = sketch,
                        !.counters =
                           (word :> [count |-> MaxOf(SaturatingAdd(hh.counters[key].count, 1),
                                                     cms_count),
                                     error |-> hh.counters[key].count])
                              @@ Remove(@, key)] : key \in MinKeys(hh.counters)}

\* score that ignores the sketch.
WordScoreRawCount(hh, key) == hh.counters[key].count

\* WordHeavyHitters::score
WordScore(hh, key) ==
    IF hh.sketch # <<>>
       THEN MaxOf(hh.counters[key].count, SketchEstimate(hh.sketch[1], key))
       ELSE hh.counters[key].count

\* WordHeavyHitters::compare_entries: a sorts before b.
WordBefore(hh, a, b) ==
    \/ WordScore(hh, b) < WordScore(hh, a)
    \/ /\ WordScore(hh, b) = WordScore(hh, a)
       /\ \/ KeyRank(a) < KeyRank(b)
          \/ KeyRank(a) = KeyRank(b) /\ hh.counters[a].error < hh.counters[b].error

\* WordHeavyHitters::top_n
WordTopN(hh, n) ==
    IF n = 0 \/ DOMAIN hh.counters = {}
       THEN <<>>
       ELSE LET keys == DOMAIN hh.counters
                before == [p \in keys \X keys |-> WordBefore(hh, p[1], p[2])]
                entries == Truncate(SortBy(keys, before), n)
            IN [i \in DOMAIN entries |->
                  [word |-> entries[i], count |-> WordScore(hh, entries[i])]]

\* WordHeavyHitters::into_top_n
WordIntoTopN(hh, n) ==
    IF n = 0 \/ DOMAIN hh.counters = {}
       THEN <<>>
       ELSE LET keys == DOMAIN hh.counters
                before == [p \in keys \X keys |-> WordBefore(hh, p[1], p[2])]
                entries == Truncate(SortBy(keys, before), n)
            IN [i \in DOMAIN entries |->
                  [word |-> entries[i], count |-> WordScore(hh, entries[i])]]

\* StatisticsAggregator::process_words: the word tables it can leave.
RECURSIVE ProcessWords(_, _)
ProcessWords(hh, content) ==
    IF content = <<>> THEN {hh}
    ELSE LET word_lower == ToLowercase(Head(content))
         IN IF word_lower \in ShortWords \/ word_lower \in StopWords
               THEN ProcessWords(hh, Tail(content))
               ELSE UNION {ProcessWords(h, Tail(content)) :
                              h \in WordIncrement(hh, word_lower)}

\* Integer division of Rust (i64 / i64): the quotient is truncated toward zero.
TruncDiv(a, b) == IF a >= 0 THEN a \div b ELSE -((-a) \div b)

\* StatisticsAggregator::get_bucket_start
GetBucketStart(timestamp) ==
    TruncDiv(timestamp, bucket_duration_secs) * bucket_duration_secs

\* What StatisticsAggregator::with_config computes.
TalkerCapacity(mt) == MaxOf(mt, 1) * 8

WordCapacity(mw) == MaxOf(mw, 1) * 4

CmsDepth == 4

MaxRatePoints(secs) == MaxOf((6 * 60 * 60) \div MaxOf(secs, 1), 60)

\* StatisticsAggregator::new() is with_config(10, 50, 10).
DefaultMaxTopTalkers == 10

DefaultMaxWords == 50

DefaultBucketSecs == 10

(* ============================== Init ================================== *)

\* DanmuService::new
ServiceInit ==
    /\ collections = [s \in SessionIds |-> NoEntry]
    /\ sessions_by_streamer = [t \in StreamerIds |-> NoSession]
    /\ events = [s \in SessionIds |-> <<>>]
    /\ persisted = {}
    /\ cancel_token = FALSE
    /\ call = [i \in Calls |-> [pc |-> "idle", session_id |-> NoSession,
                                streamer_id |-> NoStreamer,
                                removed |-> NoStreamer, err |-> "none"]]
    /\ task = [i \in Calls |-> [pc |-> "none", kind |-> "none",
                                removed |-> NoStreamer]]
    /\ ready = [i \in Calls |-> "empty"]
    /\ done = [i \in Calls |-> "empty"]
    /\ child_cancelled = [i \in Calls |-> FALSE]
    /\ command_ch = [i \in Calls |-> 0]
    /\ command_closed = [i \in Calls |-> FALSE]
    /\ handle = [i \in Calls |-> "none"]
    /\ stop = [p \in StopCallers |-> [pc |-> "idle", session_id |-> NoSession,
                                      state |-> NoEntry, outcome |-> "none"]]
    /\ shutdown = [pc |-> "idle", queue |-> {}]

\* StatisticsAggregator::new
AggregatorInit ==
    /\ aggregator = "new"
    /\ total_count = 0
    /\ chat_count = 0
    /\ gift_count = 0
    /\ talker_hh = TalkerNew(TalkerCapacity(DefaultMaxTopTalkers))
    /\ word_hh = WordNew(WordCapacity(DefaultMaxWords), <<SketchNew(CmsDepth)>>)
    /\ rate_data = <<>>
    /\ current_bucket = <<>>
    /\ bucket_duration_secs = DefaultBucketSecs
    /\ start_time = <<>>
    /\ max_top_talkers = DefaultMaxTopTalkers
    /\ max_words = DefaultMaxWords
    /\ max_rate_points = MaxRatePoints(DefaultBucketSecs)
    /\ hash = DefaultHash
    /\ stats_out = <<>>
    /\ calls = [chat |-> 0, gift |-> 0, timestamps |-> <<>>, recorded |-> 0,
                checkpointed |-> 0]
    /\ talker_calls = [u \in Users |-> 0]
    /\ word_calls = [w \in Words |-> 0]

(* --------------------------- compression ------------------------------ *)

NoJob == [run |-> 0, pc |-> "idle", inputs |-> 0, level |-> 0,
          overwrite |-> TRUE, before |-> 0, err |-> "none"]

\* The closure before spawn_blocking runs it: no TmpFileGuard yet.
NoWorker == [pc |-> "none", added |-> 0, guard |-> "none", result |-> "none"]

CompressionInit ==
    /\ output_file = 0
    /\ tmp_file = "none"
    /\ job = NoJob
    /\ worker = NoWorker
    /\ cancel = FALSE

Init == ServiceInit /\ AggregatorInit /\ CompressionInit

(* ----------------------------- helpers -------------------------------- *)

\* CollectionState.streamer_id of the state registered by start `inst`.
StateStreamer(inst) == call[inst].streamer_id

\* cancel_token.child_token(): cancelled directly or through its parent.
IsCancelled(i) == child_cancelled[i] \/ cancel_token

\* event_tx.send(DanmuEvent::...): `inst` is the start whose task or state
\* the event stems from, `by` the code path that sent it.
Broadcast(type, sid, inst, by) ==
    events' = [events EXCEPT ![sid] =
                  Append(@, [type |-> type, inst |-> inst, by |-> by])]

\* persist_statistics(session_repo, session_id, statistics)
Persist(sid, inst, by) ==
    persisted' = persisted \cup {[session_id |-> sid, inst |-> inst, by |-> by]}

SetCall(i, pc) == call' = [call EXCEPT ![i].pc = pc]

SetTask(i, pc) == task' = [task EXCEPT ![i].pc = pc]

SetStop(p, pc) == stop' = [stop EXCEPT ![p].pc = pc]

(* ==================== start_collection: the caller ==================== *)

\* Mutant of StartCollection: the session is registered before the provider
\* and the room id are resolved, and stays registered when they are not.
StartCollectionRegistersEarly(i, sid, st, url) ==
    /\ call[i].pc = "idle"
    /\ IF i = 1 THEN sid = FirstSession /\ st = FirstStreamer
                ELSE call[i - 1].pc # "idle"
    /\ call' = [call EXCEPT
                  ![i].session_id = sid,
                  ![i].streamer_id = st,
                  ![i].pc = IF collections[sid] = NoEntry /\ url = "ok"
                               THEN "insert" ELSE "ret_err",
                  ![i].err = IF collections[sid] # NoEntry THEN "already_active"
                             ELSE IF url # "ok" THEN url ELSE "none"]
    /\ collections' = IF collections[sid] = NoEntry
                         THEN [collections EXCEPT ![sid] = i] ELSE collections
    /\ UNCHANGED <<sessions_by_streamer, outputVars, cancel_token, handle, aggregatorVars, compressionVars, task,
                   channelVars, stop, shutdown>>

\* A caller invokes start_collection(session_id, streamer_id, url):
\*   if self.collections.contains_key(session_id) { return Err(..) }
\*   providers.get_by_url(url).ok_or_else(..)?   room_id ... .ok_or_else(..)?
\* The lookups after contains_key touch nothing shared, so the three
\* rejections are decided in the step that reads the registry.
\* Calls are numbered in the order they are made, and the ids of the first
\* call are named FirstSession and FirstStreamer (the ids are interchangeable).
StartCollection(i, sid, st, url) ==
    /\ call[i].pc = "idle"
    /\ IF i = 1 THEN sid = FirstSession /\ st = FirstStreamer
                ELSE call[i - 1].pc # "idle"
    /\ call' = [call EXCEPT
                  ![i].session_id = sid,
                  ![i].streamer_id = st,
                  ![i].pc = IF collections[sid] = NoEntry /\ url = "ok"
                               THEN "insert" ELSE "ret_err",
                  ![i].err = IF collections[sid] # NoEntry THEN "already_active"
                             ELSE IF url # "ok" THEN url ELSE "none"]
    /\ UNCHANGED <<registryVars, outputVars, cancel_token, handle, aggregatorVars, compressionVars, task, channelVars,
                   stop, shutdown>>

\* Mutant of StartInsert: the task is spawned first, the session is not yet
\* in the registry.
StartInsertAfterSpawn(i) ==
    /\ call[i].pc = "insert"
    /\ SetCall(i, "insert_reverse")
    /\ SetTask(i, "connect")
    /\ UNCHANGED <<registryVars, outputVars, cancel_token, handle, aggregatorVars, compressionVars, channelVars, stop,
                   shutdown>>

\* self.collections.insert(session_id.to_string(), state);
StartInsert(i) ==
    /\ call[i].pc = "insert"
    /\ collections' = [collections EXCEPT ![call[i].session_id] = i]
    /\ SetCall(i, "insert_reverse")
    /\ UNCHANGED <<sessions_by_streamer, outputVars, cancel_token, handle, aggregatorVars, compressionVars, task,
                   channelVars, stop, shutdown>>

\* self.sessions_by_streamer.insert(streamer_id, session_id);
StartInsertReverse(i) ==
    /\ call[i].pc = "insert_reverse"
    /\ sessions_by_streamer' =
          [sessions_by_streamer EXCEPT ![call[i].streamer_id] = call[i].session_id]
    /\ SetCall(i, "spawn")
    /\ UNCHANGED <<collections, outputVars, cancel_token, handle, aggregatorVars, compressionVars, task, channelVars,
                   stop, shutdown>>

\* tokio::spawn(async move { ... }): the task starts connecting.
StartSpawn(i) ==
    /\ call[i].pc = "spawn"
    /\ SetCall(i, "select")
    /\ SetTask(i, "connect")
    /\ UNCHANGED <<registryVars, outputVars, cancel_token, handle, aggregatorVars, compressionVars, channelVars, stop,
                   shutdown>>

\* Mutant of StartSelectReady: any readiness response, negative or dropped
\* included, is taken for a success.
StartSelectReadyAnyResponse(i) ==
    /\ call[i].pc = "select"
    /\ ready[i] # "empty"
    /\ Broadcast("CollectionStarted", call[i].session_id, i, "start")
    /\ SetCall(i, "ret_ok")
    /\ UNCHANGED <<registryVars, persisted, cancel_token, handle, aggregatorVars, compressionVars, task, channelVars,
                   stop, shutdown>>

\* select! arm `ready = ready_rx`: Ok(Ok(())) broadcasts CollectionStarted and
\* returns the handle; Ok(Err(e)) and Err(_) go to the caller-side cleanup.
StartSelectReady(i) ==
    /\ call[i].pc = "select"
    /\ ready[i] # "empty"
    /\ IF ready[i] = "ok"
          THEN /\ Broadcast("CollectionStarted", call[i].session_id, i, "start")
               /\ SetCall(i, "ret_ok")
          ELSE /\ call' = [call EXCEPT ![i].pc = "cleanup_remove",
                              ![i].err = IF ready[i] = "err" THEN "not_ready"
                                                            ELSE "ready_dropped"]
               /\ UNCHANGED events
    /\ UNCHANGED <<registryVars, persisted, cancel_token, handle, aggregatorVars, compressionVars, task, channelVars,
                   stop, shutdown>>

\* select! arm `_ = cancel_token.cancelled()`.
StartSelectCancelled(i) ==
    /\ call[i].pc = "select"
    /\ IsCancelled(i)
    /\ call' = [call EXCEPT ![i].pc = "cleanup_remove", ![i].err = "cancelled"]
    /\ UNCHANGED <<registryVars, outputVars, cancel_token, handle, aggregatorVars, compressionVars, task, channelVars,
                   stop, shutdown>>

\* if let Some((_, state)) = self.collections.remove(session_id) { .. }
StartCleanupRemove(i) ==
    /\ call[i].pc = "cleanup_remove"
    /\ LET sid == call[i].session_id IN
       IF collections[sid] # NoEntry
          THEN /\ call' = [call EXCEPT ![i].pc = "cleanup_check",
                              ![i].removed = StateStreamer(collections[sid])]
               /\ collections' = [collections EXCEPT ![sid] = NoEntry]
          ELSE /\ SetCall(i, "ret_err")
               /\ UNCHANGED collections
    /\ UNCHANGED <<sessions_by_streamer, outputVars, cancel_token, handle, aggregatorVars, compressionVars, task,
                   channelVars, stop, shutdown>>

\* let should_remove = sessions_by_streamer.get(&state.streamer_id)
\*     .is_some_and(|sid| sid.value() == session_id);
StartCleanupCheck(i) ==
    /\ call[i].pc = "cleanup_check"
    /\ IF sessions_by_streamer[call[i].removed] = call[i].session_id
          THEN SetCall(i, "cleanup_reverse")
          ELSE call' = [call EXCEPT ![i].pc = "ret_err", ![i].removed = NoStreamer]
    /\ UNCHANGED <<registryVars, outputVars, cancel_token, handle, aggregatorVars, compressionVars, task, channelVars,
                   stop, shutdown>>

\* if should_remove { self.sessions_by_streamer.remove(&state.streamer_id); }
StartCleanupReverse(i) ==
    /\ call[i].pc = "cleanup_reverse"
    /\ sessions_by_streamer' =
          [sessions_by_streamer EXCEPT ![call[i].removed] = NoSession]
    /\ call' = [call EXCEPT ![i].pc = "ret_err", ![i].removed = NoStreamer]
    /\ UNCHANGED <<collections, outputVars, cancel_token, handle, aggregatorVars, compressionVars, task, channelVars,
                   stop, shutdown>>

(* ==================== start_collection: the task ====================== *)

\* timeout(CONNECT_TIMEOUT, CollectionRunner::new(..)).await => Ok(Ok(runner)):
\* let _ = ready_tx.send(Ok(()));
TaskConnectOk(i) ==
    /\ task[i].pc = "connect"
    /\ ready' = [ready EXCEPT ![i] = "ok"]
    /\ SetTask(i, "run")
    /\ UNCHANGED <<registryVars, outputVars, cancel_token, handle, aggregatorVars, compressionVars, call, done,
                   child_cancelled, command_ch, command_closed, stop, shutdown>>

\* ... => Ok(Err(e)): the connection failed.
\*   event_tx.send(DanmuEvent::Error {..}); ready_tx.send(Err(e));
TaskConnectError(i) ==
    /\ task[i].pc = "connect"
    /\ Broadcast("Error", call[i].session_id, i, "task")
    /\ ready' = [ready EXCEPT ![i] = "err"]
    /\ task' = [task EXCEPT ![i].pc = "remove", ![i].kind = "connect_error"]
    /\ UNCHANGED <<registryVars, persisted, cancel_token, handle, aggregatorVars, compressionVars, call, done,
                   child_cancelled, command_ch, command_closed, stop, shutdown>>

\* ... => Err(_): CONNECT_TIMEOUT elapsed.
\*   ready_tx.send(Err(..)) comes first here, the Error event after it.
TaskConnectTimeout(i) ==
    /\ task[i].pc = "connect"
    /\ ready' = [ready EXCEPT ![i] = "err"]
    /\ task' = [task EXCEPT ![i].pc = "timeout_event", ![i].kind = "connect_timeout"]
    /\ UNCHANGED <<registryVars, outputVars, cancel_token, handle, aggregatorVars, compressionVars, call, done,
                   child_cancelled, command_ch, command_closed, stop, shutdown>>

\*   event_tx.send(DanmuEvent::Error { session_id, error: message });
TaskTimeoutEvent(i) ==
    /\ task[i].pc = "timeout_event"
    /\ Broadcast("Error", call[i].session_id, i, "task")
    /\ SetTask(i, "remove")
    /\ UNCHANGED <<registryVars, persisted, cancel_token, handle, aggregatorVars, compressionVars, call, channelVars,
                   stop, shutdown>>

\* runner.run(command_rx, cancel_token_task): the runner takes one command
\* from the channel.
TaskRecvCommand(i) ==
    /\ task[i].pc = "run"
    /\ command_ch[i] > 0
    /\ command_ch' = [command_ch EXCEPT ![i] = @ - 1]
    /\ UNCHANGED <<registryVars, outputVars, cancel_token, handle, aggregatorVars, compressionVars, call, task, ready,
                   done, child_cancelled, command_closed, stop, shutdown>>

\* let result = runner.run(command_rx, cancel_token_task).await;  => Ok(statistics)
\* command_rx, moved into run, is dropped with it.
TaskRunOk(i) ==
    /\ task[i].pc = "run"
    /\ task' = [task EXCEPT ![i].pc = "remove", ![i].kind = "run_ok"]
    /\ command_closed' = [command_closed EXCEPT ![i] = TRUE]
    /\ command_ch' = [command_ch EXCEPT ![i] = 0]
    /\ UNCHANGED <<registryVars, outputVars, cancel_token, handle, aggregatorVars, compressionVars, call, ready, done,
                   child_cancelled, stop, shutdown>>

\* Mutant of TaskRunError: the result is sent on done as soon as run has
\* returned, before the registry cleanup.
TaskRunErrorDoneFirst(i) ==
    /\ task[i].pc = "run"
    /\ Broadcast("Error", call[i].session_id, i, "task")
    /\ task' = [task EXCEPT ![i].pc = "remove", ![i].kind = "run_error"]
    /\ done' = [done EXCEPT ![i] = "err"]
    /\ command_closed' = [command_closed EXCEPT ![i] = TRUE]
    /\ command_ch' = [command_ch EXCEPT ![i] = 0]
    /\ UNCHANGED <<registryVars, persisted, cancel_token, handle, aggregatorVars, compressionVars, call, ready,
                   child_cancelled, stop, shutdown>>

\* ... => Err(e):  if let Err(e) = &result { event_tx.send(DanmuEvent::Error {..}) }
TaskRunError(i) ==
    /\ task[i].pc = "run"
    /\ Broadcast("Error", call[i].session_id, i, "task")
    /\ task' = [task EXCEPT ![i].pc = "remove", ![i].kind = "run_error"]
    /\ command_closed' = [command_closed EXCEPT ![i] = TRUE]
    /\ command_ch' = [command_ch EXCEPT ![i] = 0]
    /\ UNCHANGED <<registryVars, persisted, cancel_token, handle, aggregatorVars, compressionVars, call, ready, done,
                   child_cancelled, stop, shutdown>>

\* Mutant of TaskRemove: the result of remove is ignored, the cleanup and the
\* side effects run even when the entry was already gone.
TaskRemoveIgnoringResult(i) ==
    /\ task[i].pc = "remove"
    /\ task' = [task EXCEPT ![i].pc = "check", ![i].removed = call[i].streamer_id]
    /\ collections' = [collections EXCEPT ![call[i].session_id] = NoEntry]
    /\ UNCHANGED <<sessions_by_streamer, outputVars, cancel_token, handle, aggregatorVars, compressionVars, call,
                   channelVars, stop, shutdown>>

\* Mutant of TaskRemove: the connect failure arms forget the registry.
TaskRemoveOnlyAfterRun(i) ==
    /\ task[i].pc = "remove"
    /\ LET sid == call[i].session_id IN
       IF collections[sid] # NoEntry /\ task[i].kind \in {"run_ok", "run_error"}
          THEN /\ task' = [task EXCEPT ![i].pc = "check",
                              ![i].removed = StateStreamer(collections[sid])]
               /\ collections' = [collections EXCEPT ![sid] = NoEntry]
          ELSE /\ SetTask(i, "send_done")
               /\ UNCHANGED collections
    /\ UNCHANGED <<sessions_by_streamer, outputVars, cancel_token, handle, aggregatorVars, compressionVars, call,
                   channelVars, stop, shutdown>>

\* if let Some((_, state)) = collections.remove(&session_id_clone) { .. }
\* (the same statement in the two connect failure arms and after run)
TaskRemove(i) ==
    /\ task[i].pc = "remove"
    /\ LET sid == call[i].session_id IN
       IF collections[sid] # NoEntry
          THEN /\ task' = [task EXCEPT ![i].pc = "check",
                              ![i].removed = StateStreamer(collections[sid])]
               /\ collections' = [collections EXCEPT ![sid] = NoEntry]
          ELSE /\ SetTask(i, "send_done")
               /\ UNCHANGED collections
    /\ UNCHANGED <<sessions_by_streamer, outputVars, cancel_token, handle, aggregatorVars, compressionVars, call,
                   channelVars, stop, shutdown>>

\* Mutant of TaskAfterReverse: persist and broadcast whatever the result.
TaskAfterReverseAnyResult(i) == "finish"

\* What follows the reverse index reconciliation inside `if let Some(..)`:
\* only after run, `if let Ok(statistics) = &result { persist; send }`.
TaskAfterReverse(i) ==
    IF task[i].kind = "run_ok" THEN "finish" ELSE "send_done"

\* let should_remove = sessions_by_streamer.get(&state.streamer_id)
\*     .is_some_and(|sid| sid.value() == &session_id_clone);
TaskCheckReverse(i) ==
    /\ task[i].pc = "check"
    /\ IF sessions_by_streamer[task[i].removed] = call[i].session_id
          THEN SetTask(i, "remove_reverse")
          ELSE task' = [task EXCEPT ![i].pc = TaskAfterReverse(i),
                                    ![i].removed = NoStreamer]
    /\ UNCHANGED <<registryVars, outputVars, cancel_token, handle, aggregatorVars, compressionVars, call, channelVars,
                   stop, shutdown>>

\* if should_remove { sessions_by_streamer.remove(&state.streamer_id); }
TaskRemoveReverse(i) ==
    /\ task[i].pc = "remove_reverse"
    /\ sessions_by_streamer' =
          [sessions_by_streamer EXCEPT ![task[i].removed] = NoSession]
    /\ task' = [task EXCEPT ![i].pc = TaskAfterReverse(i),
                            ![i].removed = NoStreamer]
    /\ UNCHANGED <<collections, outputVars, cancel_token, handle, aggregatorVars, compressionVars, call, channelVars,
                   stop, shutdown>>

\* persist_statistics(session_repo.as_deref(), &session_id_clone, statistics).await;
\* event_tx.send(DanmuEvent::CollectionStopped { session_id, statistics });
TaskPersistAndEmit(i) ==
    /\ task[i].pc = "finish"
    /\ Persist(call[i].session_id, i, "task")
    /\ Broadcast("CollectionStopped", call[i].session_id, i, "task")
    /\ SetTask(i, "send_done")
    /\ UNCHANGED <<registryVars, cancel_token, handle, aggregatorVars, compressionVars, call, channelVars, stop, shutdown>>

\* let _ = done_tx.send(..); and the task returns, dropping what it owns.
TaskSendDone(i) ==
    /\ task[i].pc = "send_done"
    /\ done' = [done EXCEPT ![i] = IF task[i].kind = "run_ok" THEN "ok" ELSE "err"]
    /\ command_closed' = [command_closed EXCEPT ![i] = TRUE]
    /\ command_ch' = [command_ch EXCEPT ![i] = 0]
    /\ SetTask(i, "exited")
    /\ UNCHANGED <<registryVars, outputVars, cancel_token, handle, aggregatorVars, compressionVars, call, ready,
                   child_cancelled, stop, shutdown>>

\* The spawned future panics inside CollectionRunner::new or runner.run: tokio
\* drops it, and with it ready_tx, done_tx and command_rx, unsent.
TaskPanic(i) ==
    /\ task[i].pc \in {"connect", "run"}
    /\ task' = [task EXCEPT ![i].pc = "exited", ![i].kind = "panicked"]
    /\ ready' = [ready EXCEPT ![i] = IF @ = "empty" THEN "dropped" ELSE @]
    /\ done' = [done EXCEPT ![i] = "dropped"]
    /\ command_closed' = [command_closed EXCEPT ![i] = TRUE]
    /\ command_ch' = [command_ch EXCEPT ![i] = 0]
    /\ UNCHANGED <<registryVars, outputVars, cancel_token, handle, aggregatorVars, compressionVars, call,
                   child_cancelled, stop, shutdown>>

(* ========================== CollectionHandle ========================== *)

\* Mutant of HandleSendCommand: the command is sent with try_send, a full
\* channel is reported like a closed one.
HandleTrySendCommand(i) ==
    /\ call[i].pc = "ret_ok"
    /\ IF command_closed[i] \/ command_ch[i] >= CommandCapacity
          THEN /\ handle' = [handle EXCEPT ![i] = "not_running"]
               /\ UNCHANGED command_ch
          ELSE /\ handle' = [handle EXCEPT ![i] = "ok"]
               /\ command_ch' = [command_ch EXCEPT ![i] = @ + 1]
    /\ UNCHANGED <<registryVars, outputVars, cancel_token, call, task, ready,
                   done, child_cancelled, command_closed, stop, shutdown,
                   aggregatorVars, compressionVars>>

\* start_segment / end_segment on the handle returned by start_collection:
\* self.command_tx.send(CollectionCommand::StartSegment {..} / EndSegment {..})
\*     .await.map_err(|_| .. "Collection task not running")
\* The send completes with Ok when the channel has room (the command is
\* queued), with Err when command_rx was dropped; on a full open channel it
\* stays pending.
HandleSendCommand(i) ==
    /\ call[i].pc = "ret_ok"
    /\ command_closed[i] \/ command_ch[i] < CommandCapacity
    /\ IF command_closed[i]
          THEN /\ handle' = [handle EXCEPT ![i] = "not_running"]
               /\ UNCHANGED command_ch
          ELSE /\ handle' = [handle EXCEPT ![i] = "ok"]
               /\ command_ch' = [command_ch EXCEPT ![i] = @ + 1]
    /\ UNCHANGED <<registryVars, outputVars, cancel_token, call, task, ready,
                   done, child_cancelled, command_closed, stop, shutdown,
                   aggregatorVars, compressionVars>>

(* =========================== stop_collection ========================== *)

StopReturned == {"ret_stats", "ret_default", "ret_err"}

\* Mutant of StopRemove: a stop_collection for a session that is not
\* registered reports the session as stopped once more.
StopRemoveOrReport(p, sid) ==
    /\ IF collections[sid] # NoEntry
          THEN /\ stop' = [stop EXCEPT ![p] = [pc |-> "check", session_id |-> sid,
                                              state |-> collections[sid],
                                              outcome |-> "none"]]
               /\ collections' = [collections EXCEPT ![sid] = NoEntry]
               /\ UNCHANGED events
          ELSE /\ stop' = [stop EXCEPT ![p] = [pc |-> "ret_err", session_id |-> sid,
                                              state |-> NoEntry,
                                              outcome |-> "no_active"]]
               /\ Broadcast("CollectionStopped", sid, NoEntry, "stop")
               /\ UNCHANGED collections
    /\ UNCHANGED <<sessions_by_streamer, persisted, cancel_token, handle, aggregatorVars, compressionVars, call,
                   task, channelVars>>

\* let (_, state) = self.collections.remove(session_id).ok_or_else(..)?;
StopRemove(p, sid) ==
    /\ IF collections[sid] # NoEntry
          THEN /\ stop' = [stop EXCEPT ![p] = [pc |-> "check", session_id |-> sid,
                                              state |-> collections[sid],
                                              outcome |-> "none"]]
               /\ collections' = [collections EXCEPT ![sid] = NoEntry]
          ELSE /\ stop' = [stop EXCEPT ![p] = [pc |-> "ret_err", session_id |-> sid,
                                              state |-> NoEntry,
                                              outcome |-> "no_active"]]
               /\ UNCHANGED collections
    /\ UNCHANGED <<sessions_by_streamer, outputVars, cancel_token, handle, aggregatorVars, compressionVars, call, task,
                   channelVars>>

\* A user invokes stop_collection(session_id).
StopCollection(p, sid) ==
    /\ p \in UserStops
    /\ stop[p].pc = "idle"
    /\ StopRemove(p, sid)
    /\ UNCHANGED shutdown

\* let should_remove = self.sessions_by_streamer.get(&state.streamer_id)
\*     .is_some_and(|sid| sid.value() == session_id);
StopCheckReverse(p) ==
    /\ stop[p].pc = "check"
    /\ IF sessions_by_streamer[StateStreamer(stop[p].state)] = stop[p].session_id
          THEN SetStop(p, "remove_reverse")
          ELSE SetStop(p, "send")
    /\ UNCHANGED <<registryVars, outputVars, cancel_token, handle, aggregatorVars, compressionVars, call, task,
                   channelVars, shutdown>>

\* if should_remove { self.sessions_by_streamer.remove(&state.streamer_id); }
StopRemoveReverse(p) ==
    /\ stop[p].pc = "remove_reverse"
    /\ sessions_by_streamer' =
          [sessions_by_streamer EXCEPT ![StateStreamer(stop[p].state)] = NoSession]
    /\ SetStop(p, "send")
    /\ UNCHANGED <<collections, outputVars, cancel_token, handle, aggregatorVars, compressionVars, call, task,
                   channelVars, shutdown>>

\* let _ = state.command_tx.send(CollectionCommand::Stop).await;
\* state.cancel_token.cancel();
\* The send completes when the channel has room (the command is queued) or
\* is closed (Err, ignored); on a full open channel it stays pending, and the
\* cancel after it is not reached.
StopSendAndCancel(p) ==
    /\ stop[p].pc = "send"
    /\ LET i == stop[p].state IN
       /\ command_closed[i] \/ command_ch[i] < CommandCapacity
       /\ command_ch' = [command_ch EXCEPT ![i] =
                            IF command_closed[i] THEN @ ELSE @ + 1]
       /\ child_cancelled' = [child_cancelled EXCEPT ![i] = TRUE]
    /\ SetStop(p, "wait")
    /\ UNCHANGED <<registryVars, outputVars, cancel_token, handle, aggregatorVars, compressionVars, call, task, ready,
                   done, command_closed, shutdown>>

\* Mutant of StopAwaitStatistics: the statistics are returned without being
\* persisted and without a CollectionStopped event.
StopAwaitStatisticsSilently(p) ==
    /\ stop[p].pc = "wait"
    /\ done[stop[p].state] = "ok"
    /\ stop' = [stop EXCEPT ![p].pc = "ret_stats", ![p].outcome = "statistics"]
    /\ UNCHANGED <<registryVars, outputVars, cancel_token, handle, aggregatorVars, compressionVars, call, task,
                   channelVars, shutdown>>

\* match timeout(STOP_TIMEOUT, done_rx).await { Ok(Ok(Ok(statistics))) => {
\*   persist_statistics(..).await; event_tx.send(CollectionStopped {..});
\*   return Ok(statistics) } .. }
StopAwaitStatistics(p) ==
    /\ stop[p].pc = "wait"
    /\ done[stop[p].state] = "ok"
    /\ Persist(stop[p].session_id, stop[p].state, "stop")
    /\ Broadcast("CollectionStopped", stop[p].session_id, stop[p].state, "stop")
    /\ stop' = [stop EXCEPT ![p].pc = "ret_stats", ![p].outcome = "statistics"]
    /\ UNCHANGED <<registryVars, cancel_token, handle, aggregatorVars, compressionVars, call, task, channelVars, shutdown>>

\* ... Ok(Ok(Err(error))) => warn!, Ok(Err(_)) => {} (done_tx dropped unsent);
\* then Ok(DanmuStatistics::default()).
StopAwaitNoStatistics(p) ==
    /\ stop[p].pc = "wait"
    /\ done[stop[p].state] \in {"err", "dropped"}
    /\ stop' = [stop EXCEPT ![p].pc = "ret_default",
                   ![p].outcome = IF done[stop[p].state] = "err"
                                     THEN "task_error" ELSE "closed"]
    /\ UNCHANGED <<registryVars, outputVars, cancel_token, handle, aggregatorVars, compressionVars, call, task,
                   channelVars, shutdown>>

\* Mutant of StopTimeout: the timeout is surfaced as an error.
StopTimeoutFails(p) ==
    /\ stop[p].pc = "wait"
    /\ done[stop[p].state] = "empty"
    /\ stop' = [stop EXCEPT ![p].pc = "ret_err", ![p].outcome = "timeout"]
    /\ UNCHANGED <<registryVars, outputVars, cancel_token, handle, aggregatorVars, compressionVars, call, task,
                   channelVars, shutdown>>

\* ... Err(_) => warn!: STOP_TIMEOUT elapsed before the task sent its result;
\* then Ok(DanmuStatistics::default()).
StopTimeout(p) ==
    /\ stop[p].pc = "wait"
    /\ done[stop[p].state] = "empty"
    /\ stop' = [stop EXCEPT ![p].pc = "ret_default", ![p].outcome = "timeout"]
    /\ UNCHANGED <<registryVars, outputVars, cancel_token, handle, aggregatorVars, compressionVars, call, task,
                   channelVars, shutdown>>

(* ============================== shutdown ============================== *)

\* self.cancel_token.cancel();
ShutdownCancel ==
    /\ shutdown.pc = "idle"
    /\ cancel_token' = TRUE
    /\ shutdown' = [shutdown EXCEPT !.pc = "collect"]
    /\ UNCHANGED <<registryVars, outputVars, call, task, channelVars, handle,
                   aggregatorVars, compressionVars, stop>>

\* let session_ids: Vec<_> = self.collections.iter().map(..).collect();
ShutdownCollect ==
    /\ shutdown.pc = "collect"
    /\ shutdown' = [pc |-> "loop",
                    queue |-> {s \in SessionIds : collections[s] # NoEntry}]
    /\ UNCHANGED <<registryVars, outputVars, cancel_token, handle, aggregatorVars, compressionVars, call, task,
                   channelVars, stop>>

\* Mutant of ShutdownStopNext: the error of stop_collection is propagated,
\* shutdown returns at the first session that has ended by itself.
ShutdownStopNextOrFail(sid) ==
    /\ shutdown.pc = "loop"
    /\ sid \in shutdown.queue
    /\ stop[ShutdownStop].pc \in {"idle"} \cup StopReturned
    /\ StopRemove(ShutdownStop, sid)
    /\ shutdown' = IF collections[sid] = NoEntry
                      THEN [shutdown EXCEPT !.pc = "done"]
                      ELSE [shutdown EXCEPT !.queue = @ \ {sid}]

\* for session_id in session_ids { let _ = self.stop_collection(&session_id).await; }
\* The next iteration starts once the previous stop_collection has returned.
ShutdownStopNext(sid) ==
    /\ shutdown.pc = "loop"
    /\ sid \in shutdown.queue
    /\ stop[ShutdownStop].pc \in {"idle"} \cup StopReturned
    /\ StopRemove(ShutdownStop, sid)
    /\ shutdown' = [shutdown EXCEPT !.queue = @ \ {sid}]

\* The loop is over: shutdown returns.
ShutdownReturn ==
    /\ shutdown.pc = "loop"
    /\ shutdown.queue = {}
    /\ stop[ShutdownStop].pc \in {"idle"} \cup StopReturned
    /\ shutdown' = [shutdown EXCEPT !.pc = "done"]
    /\ UNCHANGED <<registryVars, outputVars, cancel_token, handle, aggregatorVars, compressionVars, call, task,
                   channelVars, stop>>

(* =========================== specifications =========================== *)

\* The steps of the start_collection calls in C after their rejection checks,
\* and the steps of their tasks.
StartSteps(C) ==
    \/ \E i \in C : StartInsert(i)
    \/ \E i \in C : StartInsertReverse(i)
    \/ \E i \in C : StartSpawn(i)
    \/ \E i \in C : StartSelectReady(i)
    \/ \E i \in C : StartSelectCancelled(i)
    \/ \E i \in C : StartCleanupRemove(i)
    \/ \E i \in C : StartCleanupCheck(i)
    \/ \E i \in C : StartCleanupReverse(i)
    \/ \E i \in C : TaskConnectOk(i)
    \/ \E i \in C : TaskConnectError(i)
    \/ \E i \in C : TaskConnectTimeout(i)
    \/ \E i \in C : TaskTimeoutEvent(i)
    \/ \E i \in C : TaskRecvCommand(i)
    \/ \E i \in C : TaskRunOk(i)
    \/ \E i \in C : TaskRunError(i)
    \/ \E i \in C : TaskRemove(i)
    \/ \E i \in C : TaskCheckReverse(i)
    \/ \E i \in C : TaskRemoveReverse(i)
    \/ \E i \in C : TaskPersistAndEmit(i)
    \/ \E i \in C : TaskSendDone(i)
    \/ \E i \in C : TaskPanic(i)

\* The start_collection calls in C, for any session, streamer and URL.
StartNext(C) ==
    \/ \E i \in C, sid \in SessionIds, st \in StreamerIds, url \in Urls :
          StartCollection(i, sid, st, url)
    \/ StartSteps(C)

\* The steps of the stop_collection calls in P after their registry remove.
StopSteps(P) ==
    \/ \E p \in P : StopCheckReverse(p)
    \/ \E p \in P : StopRemoveReverse(p)
    \/ \E p \in P : StopSendAndCancel(p)
    \/ \E p \in P : StopAwaitStatistics(p)
    \/ \E p \in P : StopAwaitNoStatistics(p)
    \/ \E p \in P : StopTimeout(p)

\* The stop_collection calls in P; users invoke those in U.
StopNext(U, P) ==
    \/ \E p \in U, sid \in SessionIds : StopCollection(p, sid)
    \/ StopSteps(P)

\* The steps of shutdown after it has cancelled the global token.
ShutdownDrain ==
    \/ ShutdownCollect
    \/ \E sid \in SessionIds : ShutdownStopNext(sid)
    \/ ShutdownReturn

ShutdownNext == ShutdownCancel \/ ShutdownDrain

\* Starts and user stops, no shutdown.
Next == StartNext(Calls) \/ StopNext(UserStops, UserStops)

Spec == Init /\ [][Next]_vars

\* Start i has executed its collections.insert.
Inserted(i) ==
    \/ call[i].pc \in {"insert_reverse", "spawn", "select", "cleanup_remove",
                       "cleanup_check", "cleanup_reverse", "ret_ok"}
    \/ call[i].pc = "ret_err"
          /\ call[i].err \in {"not_ready", "ready_dropped", "cancelled"}

\* The session of start i is active: the start has registered it and its
\* task has not left CollectionRunner::new / runner.run yet.
Active(i) ==
    /\ Inserted(i)
    /\ task[i].pc \in {"none", "connect", "run"}

\* shutdown begins while the session of the first start is active.
CancelActive ==
    /\ Active(1)
    /\ ShutdownCancel

\* A user calls stop_collection for the session of the first start while it
\* is active.
StopActive ==
    /\ Active(1)
    /\ \E p \in UserStops : StopCollection(p, call[1].session_id)

\* Cancellation and stop of an active session: while the session of the first
\* start is active, shutdown cancels the global token (the parent of the
\* session's token) and users call stop_collection for the session, in any
\* order and interleaving with the start, with the task, with each other and
\* with the stop_collection that shutdown itself calls.
CancelStopNext ==
    \/ StartNext({1})
    \/ CancelActive
    \/ StopActive
    \/ StopSteps(StopCallers)
    \/ ShutdownDrain

CancelStopSpec == Init /\ [][CancelStopNext]_vars

\* A user whose stop_collection call has returned calls stop_collection again.
StopAgain(p, sid) ==
    /\ p \in UserStops
    /\ stop[p].pc \in StopReturned
    /\ StopRemove(p, sid)
    /\ UNCHANGED shutdown

\* One session that is stopped, stopped again and cancelled again: the first
\* start, user stops that are repeated, and shutdown.
RestopSpecNext ==
    \/ StartNext({1})
    \/ StopNext(UserStops, StopCallers)
    \/ \E p \in UserStops, sid \in SessionIds : StopAgain(p, sid)
    \/ ShutdownNext

RestopSpec == Init /\ [][RestopSpecNext]_vars

\* The session and the streamer of start i when every start has its own.
OwnSession(i) == IF i = 1 THEN FirstSession ELSE "s2"

OwnStreamer(i) == IF i = 1 THEN FirstStreamer ELSE "st2"

\* Starts of distinct sessions of distinct streamers.
StartOwn ==
    \E i \in Calls, url \in Urls :
       StartCollection(i, OwnSession(i), OwnStreamer(i), url)

\* shutdown while sessions of distinct streamers start, run and end on their
\* own. No command is sent through a handle here, so the send of the Stop
\* command finds room in the channel.
ShutdownSpecNext ==
    \/ StartOwn
    \/ StartSteps(Calls)
    \/ StopSteps({ShutdownStop})
    \/ ShutdownNext

ShutdownSpec == Init /\ [][ShutdownSpecNext]_vars

\* shutdown of one session with commands sent through its handle. shutdown
\* and the stop_collection call it makes take the steps they can take, and a
\* runner whose token is cancelled returns: cancelling a session's token
\* causes its task to unwind.
ShutdownFairNext ==
    \/ StartNext({1})
    \/ \E i \in {1} : HandleSendCommand(i)
    \/ StopSteps({ShutdownStop})
    \/ ShutdownNext

ShutdownFairSpec ==
    /\ Init
    /\ [][ShutdownFairNext]_vars
    /\ WF_vars(StopSteps({ShutdownStop}) \/ ShutdownNext)
    /\ WF_vars(IsCancelled(1) /\ (TaskRunOk(1) \/ TaskRunError(1)))

\* The first start, the commands sent through its handle and user stops.
\* A stop_collection call that can take a step takes it: its registry
\* operations complete, and its wait for done_rx ends with a result or with
\* STOP_TIMEOUT (weak fairness). Its send completes if the channel has room
\* again and again or is closed (strong fairness: a pending send queues for
\* the next free slot of the channel, senders that arrive later do not
\* overtake it). Nothing is assumed of the runner: it may never take a
\* command and never return.
StopSpecNext ==
    \/ StartNext({1})
    \/ \E i \in {1} : HandleSendCommand(i)
    \/ StopNext(UserStops, UserStops)

StopSpec ==
    /\ Init
    /\ [][StopSpecNext]_vars
    /\ \A p \in UserStops :
          /\ WF_vars(\/ StopCheckReverse(p)
                     \/ StopRemoveReverse(p)
                     \/ StopAwaitStatistics(p)
                     \/ StopAwaitNoStatistics(p)
                     \/ StopTimeout(p))
          /\ SF_vars(StopSendAndCancel(p))

(* ======================= vocabulary of the claims ===================== *)

\* The starts that have registered session id sid so far.
Registrations(sid) == {i \in Calls : Inserted(i) /\ call[i].session_id = sid}

\* The events of one type and origin broadcast for session id sid.
EventsOf(sid, type, by) ==
    {k \in DOMAIN events[sid] : events[sid][k].type = type /\ events[sid][k].by = by}

\* The events of one type broadcast for sid that stem from start i.
EventsFrom(sid, type, i) ==
    {k \in DOMAIN events[sid] : events[sid][k].type = type /\ events[sid][k].inst = i}

(* ================================ C1 ================================== *)

\* C1 (as claimed): of two start_collection calls for one session id only one
\* registers it; the other is rejected as 'already active' and neither
\* inserts nor overwrites the registry entry.  Stated on the registry: no
\* step replaces a present entry of `collections` by another start's entry.
C1_NoOverwrite ==
    [][\A s \in SessionIds :
          collections[s] # NoEntry => collections'[s] \in {collections[s], NoEntry}]_vars

(* ================================ C4 ================================== *)

\* C4 (as claimed): a teardown of session S removes the reverse entry
\* streamer_id -> session_id only if the entry still points at S at the
\* moment of the removal; a newer session's entry is never removed.
C4_ReverseRemovedOnlyIfOwn ==
    [][\A t \in StreamerIds :
          (sessions_by_streamer[t] # NoSession /\ sessions_by_streamer'[t] = NoSession)
          => \/ \E i \in Calls : /\ call[i].pc = "cleanup_reverse"
                                 /\ call'[i].pc # "cleanup_reverse"
                                 /\ call[i].session_id = sessions_by_streamer[t]
             \/ \E i \in Calls : /\ task[i].pc = "remove_reverse"
                                 /\ task'[i].pc # "remove_reverse"
                                 /\ call[i].session_id = sessions_by_streamer[t]
             \/ \E p \in StopCallers : /\ stop[p].pc = "remove_reverse"
                                       /\ stop'[p].pc # "remove_reverse"
                                       /\ stop[p].session_id = sessions_by_streamer[t]]_vars

(* ================================ C2 ================================== *)

\* The sides ("task", "stop") that persisted statistics or broadcast
\* CollectionStopped for session id sid.
SideEffectOwners(sid) ==
    {r.by : r \in {q \in persisted : q.session_id = sid}}
       \cup {events[sid][k].by : k \in EventsOf(sid, "CollectionStopped", "task")
                                      \cup EventsOf(sid, "CollectionStopped", "stop")}

C5_StopNeverFails ==
    \A p \in StopCallers :
       stop[p].state # NoEntry =>
          LET sid == stop[p].session_id
              own == [session_id |-> sid, inst |-> stop[p].state, by |-> "stop"]
              sent == {k \in EventsOf(sid, "CollectionStopped", "stop") :
                          events[sid][k].inst = stop[p].state}
          IN /\ stop[p].pc # "ret_err"
             /\ stop[p].pc = "ret_stats" =>
                   /\ stop[p].outcome = "statistics"
                   /\ done[stop[p].state] = "ok"
                   /\ own \in persisted
                   /\ Cardinality(sent) = 1
             /\ stop[p].pc = "ret_default" =>
                   /\ stop[p].outcome \in {"task_error", "closed", "timeout"}
                   /\ stop[p].outcome = "task_error" => done[stop[p].state] = "err"
                   /\ stop[p].outcome = "closed" => done[stop[p].state] = "dropped"
             /\ stop[p].pc # "ret_stats" => (own \notin persisted /\ sent = {})

\* A stop of a registered session returned the default statistics because
\* the task reported an error.
C5_Witness ==
    \E p \in StopCallers :
       /\ stop[p].state # NoEntry
       /\ stop[p].pc = "ret_default"
       /\ stop[p].outcome = "task_error"

(* ================================ C8 ================================== *)

\* C8: when the runner fails after readiness, an Error event is broadcast
\* and the registration is gone once the task has exited, and no statistics
\* are persisted and no CollectionStopped is broadcast for that run, by the
\* task or by stop_collection.
C8_RunErrorNotPersisted ==
    \A i \in Calls :
       task[i].kind = "run_error" =>
          LET sid == call[i].session_id IN
          /\ Cardinality(EventsFrom(sid, "Error", i)) = 1
          /\ EventsFrom(sid, "CollectionStopped", i) = {}
          /\ {q \in persisted : q.inst = i} = {}
          /\ task[i].pc = "exited" => collections[sid] # i

\* The runner failed, stop_collection had removed the entry and returned.
C8_Witness ==
    \E i \in Calls, p \in StopCallers :
       /\ task[i].kind = "run_error"
       /\ task[i].pc = "exited"
       /\ stop[p].state = i
       /\ stop[p].pc = "ret_default"

(* ================================ C10 ================================= *)

\* C10: once a session task has terminated on any of its paths (successful
\* run, connect failure, connect timeout, run-time error, cancellation), the
\* registration it was spawned for is absent from the registry.
C10_TerminatedTaskUnregistered ==
    \A i \in Calls :
       (task[i].pc = "exited" /\ task[i].kind # "panicked")
          => collections[call[i].session_id] # i

\* A task has terminated after a connect timeout, having removed its entry
\* itself.
C10_Witness ==
    \E i \in Calls :
       /\ task[i].pc = "exited"
       /\ task[i].kind = "connect_timeout"
       /\ \A p \in StopCallers : stop[p].state # i
       /\ call[i].pc = "select"

(* ================================ C7 ================================== *)

\* The connect step of start i failed or timed out.
ConnectFailed(i) == task[i].kind \in {"connect_error", "connect_timeout"}

\* No start_collection or stop_collection call and no task is in progress.
Quiescent ==
    /\ \A i \in Calls : /\ call[i].pc \in {"idle", "ret_ok", "ret_err"}
                        /\ task[i].pc \in {"none", "run", "exited"}
    /\ \A p \in StopCallers : stop[p].pc \in {"idle"} \cup StopReturned

\* The part of C7 that holds: after a failed connect one Error event is
\* broadcast, the registration is gone, the caller gets an error, and no
\* CollectionStarted, no CollectionStopped and no persist stem from the start.
ConnectFailureOutcome ==
    \A i \in Calls :
       ConnectFailed(i) =>
          LET sid == call[i].session_id IN
          /\ call[i].pc # "ret_ok"
          /\ EventsFrom(sid, "CollectionStarted", i) = {}
          /\ EventsFrom(sid, "CollectionStopped", i) = {}
          /\ {q \in persisted : q.inst = i} = {}
          /\ task[i].pc = "exited" =>
                /\ Cardinality(EventsFrom(sid, "Error", i)) = 1
                /\ collections[sid] # i

\* C7 (as claimed): when the connect step fails or times out, an Error event
\* is broadcast, the registry entry is removed, start_collection returns an
\* error, nothing is started, stopped or persisted, and the reverse index
\* entry is removed too: once the failed start is over and nothing else is in
\* progress, the reverse entry of its streamer does not point at its session
\* unless the session is registered.
C7_ConnectFailureCleansUp ==
    /\ ConnectFailureOutcome
    /\ \A i \in Calls :
          (ConnectFailed(i) /\ Quiescent
              /\ Cardinality(Registrations(call[i].session_id)) = 1) =>
             ~ /\ sessions_by_streamer[call[i].streamer_id] = call[i].session_id
               /\ collections[call[i].session_id] = NoEntry

(* ================================ C9 ================================== *)

Rejections == {"already_active", "no_provider", "no_room_id"}

\* C9: a start_collection call rejected as a duplicate, for want of a
\* provider or for want of a room id returns its error in a step that leaves
\* the registry, the reverse index, the event stream, the persisted
\* statistics and the tasks as they were, and it never spawns a task.
C9_RejectedStartChangesNothing ==
    [][\A i \in Calls :
          (call[i].pc = "idle" /\ call'[i].pc = "ret_err")
             => /\ call'[i].err \in Rejections
                /\ UNCHANGED <<collections, sessions_by_streamer, events,
                               persisted, task>>
                /\ task[i].pc = "none"]_vars

\* A start was rejected as a duplicate of a registered session and has no
\* task.
C9_Witness ==
    /\ \E i \in Calls : /\ call[i].pc = "ret_err"
                        /\ call[i].err = "already_active"
                        /\ collections[call[i].session_id] # NoEntry
                        /\ task[i].pc = "none"

(* ================================ C3 ================================== *)

\* The session started by call i was active (its handle was returned), the
\* global token was cancelled, a user called stop_collection for it, and all
\* of it is over: the task has exited, every stop_collection has returned and
\* shutdown is done.
CancelledAndStopped(i) ==
    /\ call[i].pc = "ret_ok"
    /\ cancel_token
    /\ shutdown.pc = "done"
    /\ task[i].pc = "exited"
    /\ \E p \in UserStops : /\ stop[p].session_id = call[i].session_id
                            /\ stop[p].pc \in StopReturned
    /\ \A p \in StopCallers : stop[p].pc \in {"idle"} \cup StopReturned

\* The stop_collection call that removed the entry of start i gave up after
\* STOP_TIMEOUT.
StopTimedOut(i) ==
    \E p \in StopCallers : stop[p].state = i /\ stop[p].outcome = "timeout"

C6_StopReturns ==
    \A p \in UserStops : (stop[p].pc # "idle") ~> (stop[p].pc \in StopReturned)

\* What holds instead: a stop_collection call returns unless its send of the
\* Stop command is pending on a full command channel.
StopReturnsOrSendBlocked ==
    \A p \in UserStops :
       (stop[p].pc # "idle") ~>
          \/ stop[p].pc \in StopReturned
          \/ /\ stop[p].pc = "send"
             /\ command_ch[stop[p].state] = CommandCapacity
             /\ ~command_closed[stop[p].state]

(* ================================ C11 ================================= *)

\* The errors of a start_collection call that has registered its session.
ReadinessErrors == {"not_ready", "ready_dropped", "cancelled"}

\* C11: start_collection returns a handle only after the task has signalled
\* positive readiness, and then it has broadcast CollectionStarted exactly
\* once; when it returns an error after registering (negative readiness,
\* readiness channel dropped, token cancelled first) it has broadcast no
\* CollectionStarted and the registry entry it inserted is not present.
C11_HandleOnlyWhenReady ==
    \A i \in Calls :
       LET sid == call[i].session_id IN
       /\ call[i].pc = "ret_ok" =>
             /\ ready[i] = "ok"
             /\ Cardinality(EventsFrom(sid, "CollectionStarted", i)) = 1
       /\ (call[i].pc = "ret_err" /\ call[i].err \in ReadinessErrors) =>
             /\ EventsFrom(sid, "CollectionStarted", i) = {}
             /\ collections[sid] # i
       /\ call[i].pc \notin {"idle", "ret_ok", "ret_err"} =>
             EventsFrom(sid, "CollectionStarted", i) = {}

\* One start returned its handle, and one returned an error because its
\* token was cancelled although its task had connected.
C11_Witness ==
    /\ \E i \in Calls : call[i].pc = "ret_ok"
    /\ \E i \in Calls : /\ call[i].pc = "ret_err"
                        /\ call[i].err = "cancelled"
                        /\ ready[i] = "ok"

(* ================================ C12 ================================= *)

\* Every start_collection call has returned or was never made, and every
\* task that was spawned has returned.
AllOver ==
    \A i \in Calls : /\ call[i].pc \in {"idle", "ret_ok", "ret_err"}
                     /\ task[i].pc \in {"none", "exited"}
                     /\ task[i].kind # "panicked"

\* C12, in every state: once shutdown has begun the global token is
\* cancelled, and with it the token of every session; the session ids that
\* shutdown still has to stop were collected from the registry; and when
\* shutdown has returned and all is over, the registry is empty.
ShutdownInvariant ==
    /\ shutdown.pc # "idle" => /\ cancel_token
                               /\ \A i \in Calls : IsCancelled(i)
    /\ (shutdown.pc = "done" /\ AllOver) =>
          \A s \in SessionIds : collections[s] = NoEntry

\* C12, in every step: shutdown collects exactly the sessions registered at
\* that moment; it leaves a collected session only through a stop_collection
\* call for it, after which the session is not registered, whether the call
\* found the session or failed because the session had ended by itself; and
\* it returns only when it has gone through all of them.
ShutdownStep ==
    /\ (shutdown.pc = "collect" /\ shutdown'.pc = "loop") =>
          shutdown'.queue = {s \in SessionIds : collections[s] # NoEntry}
    /\ (shutdown.pc = "loop" /\ shutdown'.pc = "loop") =>
          \A s \in shutdown.queue \ shutdown'.queue :
             /\ stop'[ShutdownStop].session_id = s
             /\ collections'[s] = NoEntry
    /\ (shutdown.pc = "loop" /\ shutdown'.pc = "done") => shutdown.queue = {}

\* C12, progress: shutdown is never blocked. While it runs, it or the
\* stop_collection call it is in can take a step.
ShutdownNotBlocked ==
    shutdown.pc \in {"collect", "loop"} =>
       ENABLED (StopSteps({ShutdownStop}) \/ ShutdownDrain)

\* C12: shutdown cancels the global token and stops every session registered
\* at that moment, tolerating sessions that end by themselves; it is never
\* blocked on its way to returning; and after it has returned and all tasks
\* have exited the registry is empty.
C12_ShutdownConverges ==
    /\ []ShutdownInvariant
    /\ []ShutdownNotBlocked
    /\ [][ShutdownStep]_vars

\* shutdown returns, also when the command channel is full, provided the
\* cancelled runner returns.
ShutdownReturns == (shutdown.pc # "idle") ~> (shutdown.pc = "done")

\* shutdown has returned after it stopped one session and after its last
\* stop_collection call failed because the session had ended by itself; a
\* session that shutdown did not stop had returned its handle; and the
\* registry is empty.
C12_Witness ==
    /\ shutdown.pc = "done"
    /\ AllOver
    /\ stop[ShutdownStop].outcome = "no_active"
    /\ \E i \in Calls : call[i].pc = "ret_ok" /\ ~child_cancelled[i]
    /\ \E i \in Calls : call[i].pc = "ret_ok" /\ child_cancelled[i]
    /\ \A s \in SessionIds : collections[s] = NoEntry

(* ================================ C13 ================================= *)

\* C13: the session is registered before its task exists. Whenever the task
\* of start i has been spawned, the start has executed both inserts; and at
\* the spawn the registry holds the registration, unless a stop_collection
\* call has taken it or another start of the same session id has registered
\* over it.
C13_InsertBeforeSpawn ==
    \A i \in Calls :
       /\ task[i].pc # "none" =>
             /\ Inserted(i)
             /\ call[i].pc # "insert_reverse"
       /\ call[i].pc = "spawn" =>
             \/ collections[call[i].session_id] = i
             \/ \E p \in StopCallers : stop[p].state = i
             \/ \E j \in Calls \ {i} : j \in Registrations(call[i].session_id)

\* The task of one start is connecting and has produced nothing yet, its
\* session is registered, and a concurrent start of the same session id was
\* rejected as a duplicate.
C13_Witness ==
    \E i \in Calls :
       /\ task[i].pc = "connect"
       /\ collections[call[i].session_id] = i
       /\ events[call[i].session_id] = <<>>
       /\ \E j \in Calls \ {i} : /\ call[j].session_id = call[i].session_id
                                 /\ call[j].pc = "ret_err"
                                 /\ call[j].err = "already_active"

(* ================================ C14 ================================= *)

\* C14: start_segment and end_segment put one command into the command
\* channel of their session and return Ok, or return the error 'Collection
\* task not running' and put nothing there; the error is returned exactly
\* when the channel is closed, which it is only once the runner has ended or
\* the task is gone, never while the task is connecting or running.
C14_HandleForwardsOrFails ==
    /\ [](\A i \in Calls :
            /\ command_closed[i] => task[i].pc \notin {"none", "connect", "run"}
            /\ handle[i] = "not_running" => command_closed[i])
    /\ [][\A i \in Calls :
            (\/ handle'[i] # handle[i]
             \/ command_ch'[i] > command_ch[i] /\ UNCHANGED stop) =>
               IF command_closed[i]
                  THEN handle'[i] = "not_running" /\ command_ch'[i] = command_ch[i]
                  ELSE handle'[i] = "ok" /\ command_ch'[i] = command_ch[i] + 1]_vars

\* A command was forwarded while the runner was receiving, and a later one
\* failed after the task had exited.
C14_Witness ==
    \E i \in Calls : /\ handle[i] = "not_running"
                     /\ task[i].pc = "exited"
                     /\ task[i].kind = "run_ok"

(* ================================ C15 ================================= *)

\* Stop caller p calls stop_collection in this step and finds no session.
StopFindsNothing(p) ==
    /\ stop[p].pc \in {"idle"} \cup StopReturned
    /\ stop'[p] # stop[p]
    /\ stop'[p].pc = "ret_err"
    /\ stop'[p].outcome = "no_active"
    /\ collections[stop'[p].session_id] = NoEntry

\* C15: stop and cancellation are idempotent. A stop_collection for a session
\* that is not registered any more returns at once and changes neither the
\* registry nor the reverse index nor the events nor the persisted
\* statistics nor any token or channel; cancelling the global token leaves
\* all of these alone too and changes nothing for a session whose token is
\* cancelled already; and no registration ever has more than one persist,
\* one CollectionStopped or one Error event.
C15_RepeatedStopChangesNothing ==
    /\ [](\A i \in Calls : call[i].pc # "idle" =>
            /\ Cardinality({q \in persisted : q.inst = i}) <= 1
            /\ Cardinality(EventsFrom(call[i].session_id, "CollectionStopped", i)) <= 1
            /\ Cardinality(EventsFrom(call[i].session_id, "Error", i)) <= 1)
    /\ [][\A p \in StopCallers :
             StopFindsNothing(p) =>
                UNCHANGED <<registryVars, outputVars, cancel_token, call, task,
                            channelVars, handle>>]_vars
    /\ [][cancel_token' # cancel_token =>
             /\ UNCHANGED <<registryVars, outputVars, call, task, ready, done,
                            child_cancelled, command_ch, command_closed, handle>>
             /\ \A i \in Calls : child_cancelled[i] => IsCancelled(i)' = IsCancelled(i)]_vars

\* A user stopped the session and got its statistics, the same user called
\* stop_collection again and found nothing, shutdown then cancelled the
\* token again and found nothing to stop; one sequence was produced.
C15_Witness ==
    /\ \E p \in UserStops : /\ stop[p].outcome = "no_active"
                            /\ stop[p].session_id = FirstSession
    /\ stop[ShutdownStop].pc = "idle"
    /\ shutdown.pc = "done"
    /\ child_cancelled[1]
    /\ Cardinality(EventsOf(FirstSession, "CollectionStopped", "stop")) = 1
    /\ Cardinality(persisted) = 1
    /\ collections[FirstSession] = NoEntry

(* ======================== StatisticsAggregator ======================== *)

MaxMessages == 3

MaxIncrements == 5

ConfigSizes == {0, 1, 2}

\* The messages of a stream; content is the sequence of pieces it splits
\* into. A user under two names, a gift with a text, a text of no word, a
\* word in upper case with a stop word and a short word, a word of one
\* character of several bytes, timestamps that go back and below zero.
Messages ==
    { [user_id |-> "u1", username |-> "n1", content |-> <<"w1">>,
       is_gift |-> FALSE, timestamp |-> 3],
      [user_id |-> "u1", username |-> "n2", content |-> <<"w2", "zi">>,
       is_gift |-> FALSE, timestamp |-> 12],
      [user_id |-> "u2", username |-> "n1",
       content |-> <<"W1", "the", "x", "w3">>,
       is_gift |-> FALSE, timestamp |-> -5],
      [user_id |-> "u2", username |-> "n1", content |-> <<>>,
       is_gift |-> TRUE, timestamp |-> 3],
      [user_id |-> "u3", username |-> "n2", content |-> <<"w1">>,
       is_gift |-> TRUE, timestamp |-> 12],
      [user_id |-> "u3", username |-> "n1", content |-> <<>>,
       is_gift |-> FALSE, timestamp |-> -5] }

\* What has been called since the aggregator was made: the record_message
\* calls by kind and their timestamps; and since it was made or reset, the
\* number of record_message calls and the sum of the total_count values
\* checkpoint returned.
NoCalls == [chat |-> 0, gift |-> 0, timestamps |-> <<>>, recorded |-> 0,
            checkpointed |-> 0]

NoTalkerCalls == [u \in Users |-> 0]

NoWordCalls == [w \in Words |-> 0]

\* How often process_words hands the word to word_hh.increment.
RECURSIVE Occurrences(_, _)
Occurrences(content, word) ==
    IF content = <<>> THEN 0
    ELSE (IF ToLowercase(Head(content)) = word THEN 1 ELSE 0)
            + Occurrences(Tail(content), word)

\* The fields StatisticsAggregator::with_config sets.
Configured(mt, mw, secs) ==
    /\ total_count' = 0
    /\ chat_count' = 0
    /\ gift_count' = 0
    /\ talker_hh' = TalkerNew(TalkerCapacity(mt))
    /\ word_hh' = WordNew(WordCapacity(mw), <<SketchNew(CmsDepth)>>)
    /\ rate_data' = <<>>
    /\ current_bucket' = <<>>
    /\ bucket_duration_secs' = secs
    /\ start_time' = <<>>
    /\ max_top_talkers' = mt
    /\ max_words' = mw
    /\ max_rate_points' = MaxRatePoints(secs)
    /\ talker_calls' = NoTalkerCalls
    /\ word_calls' = NoWordCalls

\* StatisticsAggregator::with_config, called instead of new(); the words of
\* the stream fix which of them share cells of the sketch.
WithConfig(mt, mw, secs, h) ==
    /\ aggregator = "new"
    /\ aggregator' = "live"
    /\ Configured(mt, mw, secs)
    /\ calls' = NoCalls
    /\ hash' = h
    /\ stats_out' = <<>>
    /\ UNCHANGED <<serviceVars, compressionVars>>

\* StatisticsAggregator::update_rate_bucket: the new rate_data and
\* current_bucket.
UpdateRateBucket(timestamp) ==
    LET bucket_start == GetBucketStart(timestamp)
    IN IF current_bucket # <<>> /\ current_bucket[1].start = bucket_start
          THEN /\ current_bucket' = <<[current_bucket[1] EXCEPT !.count = WrappingAdd(@, 1)]>>
               /\ UNCHANGED rate_data
       ELSE IF current_bucket # <<>>
          THEN LET pushed == Append(rate_data,
                                    [timestamp |-> current_bucket[1].start,
                                     count |-> current_bucket[1].count])
               IN /\ rate_data' =
                        IF Len(pushed) > max_rate_points
                           THEN SubSeq(pushed, Len(pushed) - max_rate_points + 1,
                                       Len(pushed))
                           ELSE pushed
                  /\ current_bucket' = <<[start |-> bucket_start, count |-> 1]>>
       ELSE /\ current_bucket' = <<[start |-> bucket_start, count |-> 1]>>
            /\ UNCHANGED rate_data

\* record_message that counts a gift as a chat message as well.
RecordMessageGiftAsChat(user_id, username, content, is_gift, timestamp) ==
    /\ aggregator \in {"new", "live"}
    /\ aggregator' = "live"
    /\ start_time' = IF start_time = <<>> THEN <<timestamp>> ELSE start_time
    /\ total_count' = WrappingAdd(total_count, 1)
    /\ gift_count' = IF is_gift THEN WrappingAdd(gift_count, 1) ELSE gift_count
    /\ chat_count' = WrappingAdd(chat_count, 1)
    /\ talker_hh' \in TalkerIncrement(talker_hh, user_id, username)
    /\ word_hh' \in IF ~is_gift /\ content # <<>>
                       THEN ProcessWords(word_hh, content)
                       ELSE {word_hh}
    /\ UpdateRateBucket(timestamp)
    /\ calls' = [calls EXCEPT !.gift = IF is_gift THEN @ + 1 ELSE @,
                              !.chat = IF is_gift THEN @ ELSE @ + 1,
                              !.timestamps = Append(@, timestamp),
                              !.recorded = @ + 1]
    /\ talker_calls' = [talker_calls EXCEPT ![user_id] = @ + 1]
    /\ word_calls' = IF ~is_gift
                        THEN [w \in Words |->
                                 word_calls[w] + Occurrences(content, w)]
                        ELSE word_calls
    /\ stats_out' = <<>>
    /\ UNCHANGED <<bucket_duration_secs, max_top_talkers, max_words,
                   max_rate_points, hash>>
    /\ UNCHANGED <<serviceVars, compressionVars>>

\* record_message that moves start_time back to an earlier timestamp.
RecordMessageEarliestStart(user_id, username, content, is_gift, timestamp) ==
    /\ aggregator \in {"new", "live"}
    /\ aggregator' = "live"
    /\ start_time' = IF start_time = <<>> \/ timestamp < start_time[1]
                      THEN <<timestamp>>
                      ELSE start_time
    /\ total_count' = WrappingAdd(total_count, 1)
    /\ gift_count' = IF is_gift THEN WrappingAdd(gift_count, 1) ELSE gift_count
    /\ chat_count' = IF is_gift THEN chat_count ELSE WrappingAdd(chat_count, 1)
    /\ talker_hh' \in TalkerIncrement(talker_hh, user_id, username)
    /\ word_hh' \in IF ~is_gift /\ content # <<>>
                       THEN ProcessWords(word_hh, content)
                       ELSE {word_hh}
    /\ UpdateRateBucket(timestamp)
    /\ calls' = [calls EXCEPT !.gift = IF is_gift THEN @ + 1 ELSE @,
                              !.chat = IF is_gift THEN @ ELSE @ + 1,
                              !.timestamps = Append(@, timestamp),
                              !.recorded = @ + 1]
    /\ talker_calls' = [talker_calls EXCEPT ![user_id] = @ + 1]
    /\ word_calls' = IF ~is_gift
                        THEN [w \in Words |->
                                 word_calls[w] + Occurrences(content, w)]
                        ELSE word_calls
    /\ stats_out' = <<>>
    /\ UNCHANGED <<bucket_duration_secs, max_top_talkers, max_words,
                   max_rate_points, hash>>
    /\ UNCHANGED <<serviceVars, compressionVars>>

\* StatisticsAggregator::record_message
RecordMessage(user_id, username, content, is_gift, timestamp) ==
    /\ aggregator \in {"new", "live"}
    /\ aggregator' = "live"
    /\ start_time' = IF start_time = <<>> THEN <<timestamp>> ELSE start_time
    /\ total_count' = WrappingAdd(total_count, 1)
    /\ gift_count' = IF is_gift THEN WrappingAdd(gift_count, 1) ELSE gift_count
    /\ chat_count' = IF is_gift THEN chat_count ELSE WrappingAdd(chat_count, 1)
    /\ talker_hh' \in TalkerIncrement(talker_hh, user_id, username)
    /\ word_hh' \in IF ~is_gift /\ content # <<>>
                       THEN ProcessWords(word_hh, content)
                       ELSE {word_hh}
    /\ UpdateRateBucket(timestamp)
    /\ calls' = [calls EXCEPT !.gift = IF is_gift THEN @ + 1 ELSE @,
                              !.chat = IF is_gift THEN @ ELSE @ + 1,
                              !.timestamps = Append(@, timestamp),
                              !.recorded = @ + 1]
    /\ talker_calls' = [talker_calls EXCEPT ![user_id] = @ + 1]
    /\ word_calls' = IF ~is_gift
                        THEN [w \in Words |->
                                 word_calls[w] + Occurrences(content, w)]
                        ELSE word_calls
    /\ stats_out' = <<>>
    /\ UNCHANGED <<bucket_duration_secs, max_top_talkers, max_words,
                   max_rate_points, hash>>
    /\ UNCHANGED <<serviceVars, compressionVars>>

\* finalize whose duration is not clamped at 0.
FinalizedUnclamped(end_time) ==
    [total_count |-> total_count,
     chat_count |-> chat_count,
     gift_count |-> gift_count,
     top_talkers |-> TalkerIntoTopN(talker_hh, max_top_talkers),
     word_frequency |-> WordIntoTopN(word_hh, max_words),
     rate_timeseries |->
         IF current_bucket # <<>>
            THEN Append(rate_data, [timestamp |-> current_bucket[1].start,
                                    count |-> current_bucket[1].count])
            ELSE rate_data,
     start_time |-> start_time,
     end_time |-> <<end_time>>,
     duration_secs |-> IF start_time # <<>>
                          THEN end_time - start_time[1]
                          ELSE 0]

\* finalize that returns the closed buckets only, leaving out the open one.
FinalizedClosedBuckets(end_time) ==
    [total_count |-> total_count,
     chat_count |-> chat_count,
     gift_count |-> gift_count,
     top_talkers |-> TalkerIntoTopN(talker_hh, max_top_talkers),
     word_frequency |-> WordIntoTopN(word_hh, max_words),
     rate_timeseries |-> rate_data,
     start_time |-> start_time,
     end_time |-> <<end_time>>,
     duration_secs |-> IF start_time # <<>>
                          THEN MaxOf(end_time - start_time[1], 0)
                          ELSE 0]

\* The DanmuStatistics StatisticsAggregator::finalize returns.
Finalized(end_time) ==
    [total_count |-> total_count,
     chat_count |-> chat_count,
     gift_count |-> gift_count,
     top_talkers |-> TalkerIntoTopN(talker_hh, max_top_talkers),
     word_frequency |-> WordIntoTopN(word_hh, max_words),
     rate_timeseries |->
         IF current_bucket # <<>>
            THEN Append(rate_data, [timestamp |-> current_bucket[1].start,
                                    count |-> current_bucket[1].count])
            ELSE rate_data,
     start_time |-> start_time,
     end_time |-> <<end_time>>,
     duration_secs |-> IF start_time # <<>>
                          THEN MaxOf(end_time - start_time[1], 0)
                          ELSE 0]

\* StatisticsAggregator::finalize: it consumes the aggregator.
Finalize(end_time) ==
    /\ aggregator \in {"new", "live"}
    /\ aggregator' = "finalized"
    /\ stats_out' = <<Finalized(end_time)>>
    /\ UNCHANGED <<total_count, chat_count, gift_count, talker_hh, word_hh,
                   rate_data, current_bucket, bucket_duration_secs, start_time,
                   max_top_talkers, max_words, max_rate_points, hash, calls,
                   talker_calls, word_calls>>
    /\ UNCHANGED <<serviceVars, compressionVars>>

\* current_stats that takes the open bucket out of the aggregator, as
\* finalize does.
CurrentStatsTakingBucket ==
    /\ aggregator \in {"new", "live"}
    /\ stats_out' =
          <<[total_count |-> total_count,
             chat_count |-> chat_count,
             gift_count |-> gift_count,
             top_talkers |-> TalkerTopN(talker_hh, max_top_talkers),
             word_frequency |-> WordTopN(word_hh, max_words),
             rate_timeseries |->
                 IF current_bucket # <<>>
                    THEN Append(rate_data,
                                [timestamp |-> current_bucket[1].start,
                                 count |-> current_bucket[1].count])
                    ELSE rate_data,
             start_time |-> start_time,
             end_time |-> <<>>,
             duration_secs |-> 0]>>
    /\ current_bucket' = <<>>
    /\ rate_data' = IF current_bucket # <<>>
                       THEN Append(rate_data,
                                   [timestamp |-> current_bucket[1].start,
                                    count |-> current_bucket[1].count])
                       ELSE rate_data
    /\ UNCHANGED <<aggregator, total_count, chat_count, gift_count, talker_hh,
                   word_hh, bucket_duration_secs,
                   start_time, max_top_talkers, max_words, max_rate_points,
                   hash, calls, talker_calls, word_calls>>
    /\ UNCHANGED <<serviceVars, compressionVars>>

\* StatisticsAggregator::current_stats
CurrentStats ==
    /\ aggregator \in {"new", "live"}
    /\ stats_out' =
          <<[total_count |-> total_count,
             chat_count |-> chat_count,
             gift_count |-> gift_count,
             top_talkers |-> TalkerTopN(talker_hh, max_top_talkers),
             word_frequency |-> WordTopN(word_hh, max_words),
             rate_timeseries |->
                 IF current_bucket # <<>>
                    THEN Append(rate_data,
                                [timestamp |-> current_bucket[1].start,
                                 count |-> current_bucket[1].count])
                    ELSE rate_data,
             start_time |-> start_time,
             end_time |-> <<>>,
             duration_secs |-> 0]>>
    /\ UNCHANGED <<aggregator, total_count, chat_count, gift_count, talker_hh,
                   word_hh, rate_data, current_bucket, bucket_duration_secs,
                   start_time, max_top_talkers, max_words, max_rate_points,
                   hash, calls, talker_calls, word_calls>>
    /\ UNCHANGED <<serviceVars, compressionVars>>

\* checkpoint that returns the snapshot and keeps the displaced state.
CheckpointKeepingState(end_time) ==
    /\ aggregator = "live"
    /\ stats_out' = <<Finalized(end_time)>>
    /\ calls' = [calls EXCEPT !.checkpointed = @ + total_count]
    /\ UNCHANGED <<aggregator, total_count, chat_count, gift_count, talker_hh,
                   word_hh, rate_data, current_bucket, bucket_duration_secs,
                   start_time, max_top_talkers, max_words, max_rate_points,
                   hash, talker_calls, word_calls>>
    /\ UNCHANGED <<serviceVars, compressionVars>>

\* StatisticsAggregator::checkpoint
Checkpoint(end_time) ==
    /\ aggregator = "live"
    /\ stats_out' = <<Finalized(end_time)>>
    /\ Configured(max_top_talkers, max_words, bucket_duration_secs)
    /\ calls' = [NoCalls EXCEPT !.recorded = calls.recorded,
                                !.checkpointed = calls.checkpointed + total_count]
    /\ UNCHANGED <<aggregator, hash>>
    /\ UNCHANGED <<serviceVars, compressionVars>>

\* StatisticsAggregator::reset
Reset ==
    /\ aggregator = "live"
    /\ Configured(max_top_talkers, max_words, bucket_duration_secs)
    /\ calls' = NoCalls
    /\ stats_out' = <<>>
    /\ UNCHANGED <<aggregator, hash>>
    /\ UNCHANGED <<serviceVars, compressionVars>>

AggregatorNext ==
    \/ \E mt \in ConfigSizes, mw \in ConfigSizes, secs \in BucketDurations,
          h \in HashChoices : WithConfig(mt, mw, secs, h)
    \/ \E m \in Messages :
          /\ calls.recorded < MaxMessages
          /\ RecordMessage(m.user_id, m.username, m.content, m.is_gift,
                           m.timestamp)
    \/ CurrentStats
    \/ \E end_time \in Timestamps : Finalize(end_time)
    \/ \E end_time \in Timestamps : Checkpoint(end_time)
    \/ Reset

AggregatorSpec == Init /\ [][AggregatorNext]_vars

(* ===================== the heavy-hitter tables alone ================== *)

TableCapacities == {0, 1, 2, 3}

SketchDepths == {1, 3}

MaxTopN == 3

Increments ==
    LET talker == talker_calls["u1"] + talker_calls["u2"] + talker_calls["u3"]
        word == word_calls["w1"] + word_calls["w2"] + word_calls["w3"]
                   + word_calls["zi"]
    IN talker + word

\* TalkerHeavyHitters::new, for a table used on its own.
NewTalkerTable(capacity) ==
    /\ aggregator = "new"
    /\ aggregator' = "talkers"
    /\ talker_hh' = TalkerNew(capacity)
    /\ UNCHANGED <<total_count, chat_count, gift_count, word_hh, rate_data,
                   current_bucket, bucket_duration_secs, start_time,
                   max_top_talkers, max_words, max_rate_points, hash,
                   stats_out, calls, talker_calls, word_calls>>
    /\ UNCHANGED <<serviceVars, compressionVars>>

\* WordHeavyHitters::new, for a table used on its own, without a sketch.
NewWordTable(capacity) ==
    /\ aggregator = "new"
    /\ aggregator' = "words"
    /\ word_hh' = WordNew(capacity, <<>>)
    /\ UNCHANGED <<total_count, chat_count, gift_count, talker_hh, rate_data,
                   current_bucket, bucket_duration_secs, start_time,
                   max_top_talkers, max_words, max_rate_points, hash,
                   stats_out, calls, talker_calls, word_calls>>
    /\ UNCHANGED <<serviceVars, compressionVars>>

\* WordHeavyHitters::new with Some(CountMinSketch::new(..)).
NewWordTableWithSketch(capacity, depth, h) ==
    /\ aggregator = "new"
    /\ aggregator' = "words"
    /\ word_hh' = WordNew(capacity, <<SketchNew(depth)>>)
    /\ hash' = h
    /\ UNCHANGED <<total_count, chat_count, gift_count, talker_hh, rate_data,
                   current_bucket, bucket_duration_secs, start_time,
                   max_top_talkers, max_words, max_rate_points,
                   stats_out, calls, talker_calls, word_calls>>
    /\ UNCHANGED <<serviceVars, compressionVars>>

\* talker_hh.increment(user_id, username) on the table alone.
IncrementTalker(user_id, username) ==
    /\ aggregator = "talkers"
    /\ talker_hh' \in TalkerIncrement(talker_hh, user_id, username)
    /\ talker_calls' = [talker_calls EXCEPT ![user_id] = @ + 1]
    /\ stats_out' = <<>>
    /\ UNCHANGED <<aggregator, total_count, chat_count, gift_count, word_hh,
                   rate_data, current_bucket, bucket_duration_secs, start_time,
                   max_top_talkers, max_words, max_rate_points, hash, calls,
                   word_calls>>
    /\ UNCHANGED <<serviceVars, compressionVars>>

\* word_hh.increment(word) on the table alone.
IncrementWord(word) ==
    /\ aggregator = "words"
    /\ word_hh' \in WordIncrement(word_hh, word)
    /\ word_calls' = [word_calls EXCEPT ![word] = @ + 1]
    /\ stats_out' = <<>>
    /\ UNCHANGED <<aggregator, total_count, chat_count, gift_count, talker_hh,
                   rate_data, current_bucket, bucket_duration_secs, start_time,
                   max_top_talkers, max_words, max_rate_points, hash, calls,
                   talker_calls>>
    /\ UNCHANGED <<serviceVars, compressionVars>>

\* talker_hh.top_n(n) on the table alone.
TopTalkers(n) ==
    /\ aggregator = "talkers"
    /\ stats_out' = <<[n |-> n, top_talkers |-> TalkerTopN(talker_hh, n)]>>
    /\ UNCHANGED <<aggregator, total_count, chat_count, gift_count, talker_hh,
                   word_hh, rate_data, current_bucket, bucket_duration_secs,
                   start_time, max_top_talkers, max_words, max_rate_points,
                   hash, calls, talker_calls, word_calls>>
    /\ UNCHANGED <<serviceVars, compressionVars>>

\* word_hh.top_n(n) on the table alone.
TopWords(n) ==
    /\ aggregator = "words"
    /\ stats_out' = <<[n |-> n, word_frequency |-> WordTopN(word_hh, n)]>>
    /\ UNCHANGED <<aggregator, total_count, chat_count, gift_count, talker_hh,
                   word_hh, rate_data, current_bucket, bucket_duration_secs,
                   start_time, max_top_talkers, max_words, max_rate_points,
                   hash, calls, talker_calls, word_calls>>
    /\ UNCHANGED <<serviceVars, compressionVars>>

HeavyHitterNext ==
    \/ \E capacity \in TableCapacities : NewTalkerTable(capacity)
    \/ \E capacity \in TableCapacities : NewWordTable(capacity)
    \/ \E capacity \in TableCapacities, depth \in SketchDepths,
          h \in HashChoices : NewWordTableWithSketch(capacity, depth, h)
    \/ \E user_id \in Users, username \in Usernames :
          Increments < MaxIncrements /\ IncrementTalker(user_id, username)
    \/ \E word \in Words : Increments < MaxIncrements /\ IncrementWord(word)
    \/ \E n \in 0..MaxTopN : TopTalkers(n)
    \/ \E n \in 0..MaxTopN : TopWords(n)

HeavyHitterSpec == Init /\ [][HeavyHitterNext]_vars

(* ================================ C16 ================================= *)

\* A call of current_stats, finalize or checkpoint returns: stats_out holds
\* the DanmuStatistics it returned, computed from the state before the step.
Reports == stats_out' # stats_out /\ stats_out' # <<>>

CountsAgree ==
    /\ total_count = chat_count + gift_count
    /\ chat_count = calls.chat
    /\ gift_count = calls.gift

ReportedCountsAgree ==
    Reports =>
        /\ stats_out'[1].total_count
              = stats_out'[1].chat_count + stats_out'[1].gift_count
        /\ stats_out'[1].chat_count = calls.chat
        /\ stats_out'[1].gift_count = calls.gift

\* C16: total_count is chat_count + gift_count, chat_count is the number of
\* record_message calls with is_gift false and gift_count the number with
\* is_gift true, in the aggregator at every moment and in what current_stats
\* and finalize report.
C16_CountsMatchCalls == []CountsAgree /\ [][ReportedCountsAgree]_vars

\* finalize has reported two chat messages and a gift.
C16_Witness ==
    /\ aggregator = "finalized"
    /\ stats_out # <<>>
    /\ stats_out[1].chat_count = 2
    /\ stats_out[1].gift_count = 1

(* ================================ C17 ================================= *)

\* The aggregator and the tables used on their own.
StatisticsNext == AggregatorNext \/ HeavyHitterNext

StatisticsSpec == Init /\ [][StatisticsNext]_vars

TableSize(hh) == Cardinality(DOMAIN hh.counters)

TablesBounded ==
    /\ talker_hh.capacity >= 1
    /\ word_hh.capacity >= 1
    /\ TableSize(talker_hh) <= talker_hh.capacity
    /\ TableSize(word_hh) <= word_hh.capacity

\* stats_out holds a DanmuStatistics of the aggregator.
AggregatorReported ==
    aggregator \in {"live", "finalized"} /\ stats_out # <<>>

OutputBounded ==
    AggregatorReported =>
        /\ Len(stats_out[1].top_talkers) <= max_top_talkers
        /\ Len(stats_out[1].word_frequency) <= max_words

\* C17: whatever keys are incremented, the talker table and the word table
\* hold at most capacity entries, capacity being at least 1, and the
\* top_talkers and word_frequency of a reported DanmuStatistics hold at most
\* max_top_talkers and max_words entries.
C17_TablesAndOutputBounded == TablesBounded /\ OutputBounded

\* A full talker table that has evicted an entry for a new key.
C17_Witness ==
    /\ aggregator = "talkers"
    /\ TableSize(talker_hh) = talker_hh.capacity
    /\ \E k \in DOMAIN talker_hh.counters : talker_hh.counters[k].error > 0

(* ================================ C18 ================================= *)

\* The effective score of a tracked key: the raw count for a talker, and for
\* a word the larger of the raw count and the estimate of the attached sketch.
TalkerEffectiveScore(key) == talker_hh.counters[key].count

WordEffectiveScore(key) ==
    IF word_hh.sketch = <<>>
       THEN word_hh.counters[key].count
       ELSE MaxOf(word_hh.counters[key].count,
                  SketchEstimate(word_hh.sketch[1], key))

\* out lists n keys of the table (or all of them, if fewer), each with its
\* effective score, the higher score first and the smaller key first among
\* equal scores, and no key left out scores higher than a listed one.
TopOfTable(out, n, keys, Key(_), Reported(_), Score(_)) ==
    /\ Len(out) = MinOf(n, Cardinality(keys))
    /\ \A i \in DOMAIN out : Key(out[i]) \in keys
    /\ \A i \in DOMAIN out : Reported(out[i]) = Score(Key(out[i]))
    /\ \A i, j \in DOMAIN out :
          i < j => \/ Score(Key(out[i])) > Score(Key(out[j]))
                   \/ /\ Score(Key(out[i])) = Score(Key(out[j]))
                      /\ KeyRank(Key(out[i])) < KeyRank(Key(out[j]))
    /\ \A i \in DOMAIN out :
          \A k \in keys \ {Key(out[j]) : j \in DOMAIN out} :
              \/ Score(k) < Score(Key(out[i]))
              \/ /\ Score(k) = Score(Key(out[i]))
                 /\ KeyRank(Key(out[i])) < KeyRank(k)

TalkerTopIsRight ==
    LET Key(e) == e.user_id
        Reported(e) == e.message_count
    IN aggregator = "talkers" /\ stats_out # <<>> =>
          TopOfTable(stats_out[1].top_talkers, stats_out[1].n,
                     DOMAIN talker_hh.counters, Key, Reported,
                     TalkerEffectiveScore)

WordTopIsRight ==
    LET Key(e) == e.word
        Reported(e) == e.count
    IN aggregator = "words" /\ stats_out # <<>> =>
          TopOfTable(stats_out[1].word_frequency, stats_out[1].n,
                     DOMAIN word_hh.counters, Key, Reported,
                     WordEffectiveScore)

EmptyTopIsEmpty ==
    /\ aggregator = "talkers" /\ stats_out # <<>>
          /\ (stats_out[1].n = 0 \/ DOMAIN talker_hh.counters = {})
          => stats_out[1].top_talkers = <<>>
    /\ aggregator = "words" /\ stats_out # <<>>
          /\ (stats_out[1].n = 0 \/ DOMAIN word_hh.counters = {})
          => stats_out[1].word_frequency = <<>>

\* C18: top_n(n) returns min(n, table size) entries, the highest-scoring ones
\* of the table, by effective score descending (the raw count for talkers,
\* max(count, sketch.estimate(key)) for words with a sketch) and by key
\* ascending among equal scores; top_n(0) and top_n of an empty table return
\* the empty list.
C18_TopNIsTheTop == TalkerTopIsRight /\ WordTopIsRight /\ EmptyTopIsEmpty

\* top_n(1) of a word table of two entries has returned a word whose estimate
\* in the sketch is above its raw count.
C18_Witness ==
    /\ aggregator = "words"
    /\ word_hh.sketch # <<>>
    /\ stats_out # <<>>
    /\ stats_out[1].n = 1
    /\ TableSize(word_hh) = 2
    /\ Len(stats_out[1].word_frequency) = 1
    /\ stats_out[1].word_frequency[1].count
          > word_hh.counters[stats_out[1].word_frequency[1].word].count

(* ================================ C19 ================================= *)

\* talker_calls[k] and word_calls[k] count the increment calls made for k
\* since the table was created.
TalkerNeverUnder ==
    \A k \in DOMAIN talker_hh.counters :
        talker_hh.counters[k].count >= talker_calls[k]

WordNeverUnder ==
    \A k \in DOMAIN word_hh.counters :
        /\ word_hh.counters[k].count >= word_calls[k]
        /\ WordEffectiveScore(k) >= word_calls[k]

\* C19: for every key tracked in the talker table or in the word table, the
\* reported count is at least the number of increment calls made for that
\* key since the table was created.
C19_NeverUnderReports == TalkerNeverUnder /\ WordNeverUnder

\* A word was incremented twice, evicted, and admitted again: the table
\* reports more than its increments.
C19_Witness ==
    /\ aggregator = "words"
    /\ word_hh.sketch = <<>>
    /\ \E k \in DOMAIN word_hh.counters :
          /\ word_hh.counters[k].error > 0
          /\ word_calls[k] >= 2
          /\ word_hh.counters[k].count > word_calls[k]

(* ================================ C20 ================================= *)

TalkerOverByErrorAtMost ==
    \A k \in DOMAIN talker_hh.counters :
        talker_hh.counters[k].count - talker_hh.counters[k].error
            <= talker_calls[k]

WordOverByErrorAtMost ==
    \A k \in DOMAIN word_hh.counters :
        word_hh.counters[k].count - word_hh.counters[k].error <= word_calls[k]

\* An increment admits key: it was not tracked before the step and is
\* tracked after it.
Admits(hh_before, hh_after, key) ==
    key \in DOMAIN hh_after.counters \ DOMAIN hh_before.counters

\* The error of an admitted key is the count of the entry that left the
\* table in the same step, and 0 if none left.
ErrorIsEvictedCount(hh_before, hh_after) ==
    \A key \in DOMAIN hh_after.counters :
        Admits(hh_before, hh_after, key) =>
            LET evicted == DOMAIN hh_before.counters \ DOMAIN hh_after.counters
            IN IF evicted = {}
                  THEN hh_after.counters[key].error = 0
                  ELSE \A v \in evicted :
                          hh_after.counters[key].error = hh_before.counters[v].count

\* The error of a tracked key stays what it was at admission.
ErrorKept(hh_before, hh_after) ==
    \A key \in DOMAIN hh_after.counters \cap DOMAIN hh_before.counters :
        hh_after.counters[key].error = hh_before.counters[key].error

ErrorsAreEvictedCounts ==
    /\ aggregator' = aggregator /\ aggregator = "talkers" =>
          /\ ErrorIsEvictedCount(talker_hh, talker_hh')
          /\ ErrorKept(talker_hh, talker_hh')
    /\ aggregator' = aggregator /\ aggregator = "words" =>
          /\ ErrorIsEvictedCount(word_hh, word_hh')
          /\ ErrorKept(word_hh, word_hh')

\* C20: for every key tracked in the talker table or in the word table, with
\* or without a sketch, the reported count minus the error is at most the
\* number of increment calls made for that key, and the error is the count
\* of the entry the key evicted, 0 if it evicted none.
C20_OverReportsByErrorAtMost ==
    /\ []TalkerOverByErrorAtMost
    /\ []WordOverByErrorAtMost
    /\ [][ErrorsAreEvictedCounts]_vars

\* The same without the word table that has a sketch attached.
WordOverByErrorAtMostWithoutSketch ==
    word_hh.sketch = <<>> => WordOverByErrorAtMost

C20_OverReportsByErrorAtMostWithoutSketch ==
    /\ []TalkerOverByErrorAtMost
    /\ []WordOverByErrorAtMostWithoutSketch
    /\ [][ErrorsAreEvictedCounts]_vars

(* ================================ C21 ================================= *)

\* A record_message call returns in this step.
Records == calls'.recorded = calls.recorded + 1

OpenBucketIsLatest ==
    current_bucket # <<>> =>
        \A i \in DOMAIN rate_data :
            current_bucket[1].start >= rate_data[i].timestamp

ClosedBucketsIncrease ==
    \A i, j \in DOMAIN rate_data :
        i < j => rate_data[i].timestamp < rate_data[j].timestamp

ClosedBucketsCapped == Len(rate_data) <= max_rate_points

\* A call that closes a bucket appends it and drops buckets from the front
\* only.
OldestDroppedFirst ==
    Records /\ rate_data' # rate_data =>
        LET pushed == Append(rate_data,
                             [timestamp |-> current_bucket[1].start,
                              count |-> current_bucket[1].count])
        IN \E k \in 0..Len(pushed) :
              /\ rate_data' = SubSeq(pushed, k + 1, Len(pushed))
              /\ k > 0 => Len(rate_data') = max_rate_points

\* C21: after any sequence of record_message calls, whatever the order of
\* their timestamps, the open bucket starts at or after every closed bucket,
\* the closed buckets are strictly increasing in time, and there are at most
\* max_rate_points of them, the oldest being dropped first.
C21_BucketsOrderedAndCapped ==
    /\ []OpenBucketIsLatest
    /\ []ClosedBucketsIncrease
    /\ []ClosedBucketsCapped
    /\ [][OldestDroppedFirst]_vars

\* The timestamps of the calls never went back.
RECURSIVE NonDecreasing(_)
NonDecreasing(seq) ==
    Len(seq) < 2 \/ (seq[1] <= seq[2] /\ NonDecreasing(Tail(seq)))

\* The same for calls whose timestamps never go back.
C21_BucketsOrderedAndCappedInOrder ==
    /\ [](NonDecreasing(calls.timestamps) => OpenBucketIsLatest)
    /\ [](NonDecreasing(calls.timestamps) => ClosedBucketsIncrease)
    /\ []ClosedBucketsCapped
    /\ [][OldestDroppedFirst]_vars

(* ================================ C22 ================================= *)

\* floor(timestamp / bucket_duration) * bucket_duration
FloorBucketStart(timestamp) ==
    (timestamp \div bucket_duration_secs) * bucket_duration_secs

\* The call that returns in this step counted its message in the bucket that
\* starts at Start(timestamp): in the open bucket if that one starts there,
\* and otherwise in a new bucket of count 1, the open one being closed.
CountedInBucket(Start(_)) ==
    Records =>
        LET start == Start(calls'.timestamps[Len(calls'.timestamps)])
        IN /\ current_bucket' # <<>>
           /\ current_bucket'[1].start = start
           /\ IF current_bucket # <<>> /\ current_bucket[1].start = start
                 THEN /\ current_bucket'[1].count = current_bucket[1].count + 1
                      /\ rate_data' = rate_data
                 ELSE /\ current_bucket'[1].count = 1
                      /\ current_bucket # <<>> =>
                            /\ rate_data' # <<>>
                            /\ rate_data'[Len(rate_data')] =
                                  [timestamp |-> current_bucket[1].start,
                                   count |-> current_bucket[1].count]

\* finalize returns in this step (called directly or by checkpoint).
Finalizes == Reports /\ stats_out'[1].end_time # <<>>

\* After calls whose timestamps never went back, finalize returns one data
\* point for each bucket start Start(timestamp) of a call, in time order,
\* with the number of calls of that bucket.
OnePointPerBucket(Start(_)) ==
    Finalizes /\ NonDecreasing(calls.timestamps) =>
        LET out == stats_out'[1].rate_timeseries
            starts == {Start(calls.timestamps[k]) : k \in DOMAIN calls.timestamps}
        IN /\ Len(out) = Cardinality(starts)
           /\ \A i \in DOMAIN out : out[i].timestamp \in starts
           /\ \A i, j \in DOMAIN out : i < j => out[i].timestamp < out[j].timestamp
           /\ \A i \in DOMAIN out :
                 out[i].count =
                    Cardinality({k \in DOMAIN calls.timestamps :
                                    Start(calls.timestamps[k]) = out[i].timestamp})

\* C22: every message, whatever its timestamp (negative ones too), is counted
\* in the bucket that starts at floor(timestamp / bucket_duration) *
\* bucket_duration: the open bucket if it starts there, else a new bucket of
\* count 1 with the open one closed; and after non-decreasing timestamps
\* finalize returns one data point per distinct bucket start, in time order,
\* with the number of messages of that bucket.
C22_CountedInFloorBucket ==
    /\ [][CountedInBucket(FloorBucketStart)]_vars
    /\ [][OnePointPerBucket(FloorBucketStart)]_vars

\* The same with the quotient truncated toward zero instead of floored.
C22_CountedInTruncatedBucket ==
    /\ [][CountedInBucket(GetBucketStart)]_vars
    /\ [][OnePointPerBucket(GetBucketStart)]_vars

(* ================================ C23 ================================= *)

\* The timestamp of the first record_message call, None if there was none.
FirstTimestamp ==
    IF calls.timestamps = <<>> THEN <<>> ELSE <<calls.timestamps[1]>>

FinalizeTimes(end_time) ==
    Finalize(end_time) \/ Checkpoint(end_time) =>
        /\ stats_out'[1].end_time = <<end_time>>
        /\ stats_out'[1].start_time = FirstTimestamp
        /\ stats_out'[1].duration_secs =
              IF FirstTimestamp = <<>>
                 THEN 0
                 ELSE MaxOf(0, end_time - FirstTimestamp[1])

\* C23: finalize(end_time) returns end_time = Some(end_time), start_time =
\* the timestamp of the first recorded message (None if none was recorded)
\* and duration_secs = max(0, end_time - start_time), which is 0 without a
\* message and when end_time is before start_time.
C23_FinalizeTimes == [][\A end_time \in Timestamps : FinalizeTimes(end_time)]_vars

\* finalize was called with an end_time before the first message.
C23_Witness ==
    /\ aggregator = "finalized"
    /\ stats_out # <<>>
    /\ stats_out[1].start_time # <<>>
    /\ stats_out[1].end_time[1] < stats_out[1].start_time[1]
    /\ stats_out[1].duration_secs = 0

(* ================================ C24 ================================= *)

\* The fields of the StatisticsAggregator.
aggregatorState ==
    <<total_count, chat_count, gift_count, talker_hh, word_hh, rate_data,
      current_bucket, bucket_duration_secs, start_time, max_top_talkers,
      max_words, max_rate_points>>

\* stats_out holds what current_stats returned, and nothing was called since.
SnapshotHeld == stats_out # <<>> /\ stats_out[1].end_time = <<>>

SnapshotLeavesState == CurrentStats => UNCHANGED aggregatorState

SnapshotRepeats == CurrentStats /\ SnapshotHeld => stats_out' = stats_out

SnapshotShape ==
    CurrentStats =>
        /\ stats_out'[1].end_time = <<>>
        /\ stats_out'[1].duration_secs = 0
        /\ LET out == stats_out'[1].rate_timeseries
           IN IF current_bucket = <<>>
                 THEN out = rate_data
                 ELSE /\ Len(out) = Len(rate_data) + 1
                      /\ SubSeq(out, 1, Len(rate_data)) = rate_data
                      /\ out[Len(out)] = [timestamp |-> current_bucket[1].start,
                                          count |-> current_bucket[1].count]

\* C24: current_stats leaves the aggregator as it was, returns the same
\* result when called again with no record_message in between, and every
\* result has no end_time, duration_secs 0, and the open bucket after all
\* closed buckets.
C24_CurrentStatsReadsOnly ==
    /\ [][SnapshotLeavesState]_vars
    /\ [][SnapshotRepeats]_vars
    /\ [][SnapshotShape]_vars

\* current_stats returned a closed bucket followed by the open one, and the
\* open one is still in the aggregator.
C24_Witness ==
    /\ SnapshotHeld
    /\ aggregator = "live"
    /\ Len(stats_out[1].rate_timeseries) = 2
    /\ Len(rate_data) = 1
    /\ current_bucket # <<>>

(* ================================ C25 ================================= *)

\* The fields of an aggregator just made by with_config(mt, mw, secs).
FreshState(mt, mw, secs) ==
    <<0, 0, 0,
      [capacity |-> MaxOf(mt, 1) * 8, counters |-> NoCounters],
      [capacity |-> MaxOf(mw, 1) * 4, counters |-> NoCounters,
       sketch |-> <<[depth |-> 4, rows |-> [r \in Rows |-> [c \in Cells |-> 0]]]>>],
      <<>>, <<>>, secs, <<>>, mt, mw, MaxOf(21600 \div MaxOf(secs, 1), 60)>>

LeavesFresh ==
    aggregatorState' =
        FreshState(max_top_talkers, max_words, bucket_duration_secs)

CheckpointIsFinalize(end_time) ==
    Checkpoint(end_time) =>
        /\ stats_out' = <<Finalized(end_time)>>
        /\ calls'.checkpointed = calls.checkpointed + stats_out'[1].total_count
        /\ LeavesFresh

ResetIsSilent == Reset => stats_out' = <<>> /\ LeavesFresh

\* Since the aggregator was made or reset: what the checkpoints returned as
\* total_count and what is still in the aggregator add up to the calls.
CheckpointsAddUp == calls.checkpointed + total_count = calls.recorded

\* C25: checkpoint(end_time) returns what finalize(end_time) returns on the
\* state before the call and leaves a fresh aggregator of the same
\* max_top_talkers, max_words and bucket duration; reset leaves the same
\* fresh state and returns nothing; the total_count values of repeated
\* checkpoints add up to the number of messages recorded.
C25_CheckpointAndReset ==
    /\ [][\A end_time \in Timestamps : CheckpointIsFinalize(end_time)]_vars
    /\ [][ResetIsSilent]_vars
    /\ []CheckpointsAddUp

\* A second checkpoint has returned: two messages went into the first, one
\* into the second.
C25_Witness ==
    /\ aggregator = "live"
    /\ stats_out # <<>>
    /\ stats_out[1].end_time # <<>>
    /\ stats_out[1].total_count = 1
    /\ calls.checkpointed = 3
    /\ total_count = 0

(* ======================= counters at their maximum ==================== *)

\* record_message in a build with overflow checks, when total_count is
\* u64::MAX: total_count += 1 panics, after start_time was set.
RecordMessageOverflow(timestamp) ==
    /\ aggregator \in {"new", "live"}
    /\ total_count = U64Max
    /\ aggregator' = "panicked"
    /\ start_time' = IF start_time = <<>> THEN <<timestamp>> ELSE start_time
    /\ stats_out' = <<>>
    /\ UNCHANGED <<total_count, chat_count, gift_count, talker_hh, word_hh,
                   rate_data, current_bucket, bucket_duration_secs,
                   max_top_talkers, max_words, max_rate_points, hash, calls,
                   talker_calls, word_calls>>
    /\ UNCHANGED <<serviceVars, compressionVars>>

\* Messages of one rate bucket, a chat message and a gift.
SaturatingMessages == {m \in Messages : m.timestamp = 3}

SaturatingUsers == {"u1", "u2"}

SaturatingWords == {"w1", "w2"}

\* One call more than the counters can count.
CallsToOverflow == U64Max + 1

\* Long runs of few distinct inputs: the aggregator, a talker table and a
\* word table with a sketch, each of capacity 1.
SaturationNext ==
    \/ \E m \in SaturatingMessages :
          /\ calls.recorded < CallsToOverflow
          /\ RecordMessage(m.user_id, m.username, m.content, m.is_gift,
                           m.timestamp)
    \/ \E m \in SaturatingMessages : RecordMessageOverflow(m.timestamp)
    \/ CurrentStats
    \/ NewTalkerTable(1)
    \/ \E h \in HashChoices : NewWordTableWithSketch(1, 2, h)
    \/ \E user_id \in SaturatingUsers :
          Increments < CallsToOverflow /\ IncrementTalker(user_id, "n1")
    \/ \E word \in SaturatingWords :
          Increments < CallsToOverflow /\ IncrementWord(word)

SaturationSpec == Init /\ [][SaturationNext]_vars

(* ================================ C26 ================================= *)

\* An increment of a table used on its own returns in this step.
IncrementsTable ==
    /\ aggregator \in {"talkers", "words"}
    /\ aggregator' = aggregator
    /\ <<talker_calls, word_calls>>' # <<talker_calls, word_calls>>

Counts == Records \/ IncrementsTable

NeverPanics == aggregator # "panicked"

AggregatorCountsStayAtMax ==
    Records =>
        /\ total_count = U64Max => total_count' = U64Max
        /\ chat_count = U64Max => chat_count' = U64Max
        /\ gift_count = U64Max => gift_count' = U64Max
        /\ /\ current_bucket # <<>>
           /\ current_bucket[1].count = U64Max
           /\ current_bucket'[1].start = current_bucket[1].start
           => current_bucket'[1].count = U64Max

EntriesStayAtMax(hh_before, hh_after) ==
    \A k \in DOMAIN hh_before.counters \cap DOMAIN hh_after.counters :
        hh_before.counters[k].count = U64Max
            => hh_after.counters[k].count = U64Max

CellsStayAtMax ==
    word_hh.sketch # <<>> /\ word_hh'.sketch # <<>> =>
        \A r \in DOMAIN word_hh.sketch[1].rows : \A c \in Cells :
            word_hh.sketch[1].rows[r][c] = U64Max
                => word_hh'.sketch[1].rows[r][c] = U64Max

TableCountsStayAtMax ==
    Counts => /\ EntriesStayAtMax(talker_hh, talker_hh')
              /\ EntriesStayAtMax(word_hh, word_hh')
              /\ CellsStayAtMax

\* C26: no counter overflows, wraps or panics; total_count, chat_count,
\* gift_count, the count of the open rate bucket, the count of every entry of
\* a heavy-hitter table and every cell of the sketch stay at the maximum of
\* their width once they have reached it.
C26_CountersSaturate ==
    /\ []NeverPanics
    /\ [][AggregatorCountsStayAtMax]_vars
    /\ [][TableCountsStayAtMax]_vars

\* The same for the heavy-hitter tables and the sketch alone.
C26_TableCountersSaturate == [][TableCountsStayAtMax]_vars

\* An entry of a table and a cell of the sketch are at the maximum.
C26_TablesAtMax ==
    \/ \E k \in DOMAIN talker_hh.counters : talker_hh.counters[k].count = U64Max
    \/ /\ word_hh.sketch # <<>>
       /\ \E k \in DOMAIN word_hh.counters : word_hh.counters[k].count = U64Max
       /\ \E r \in DOMAIN word_hh.sketch[1].rows : \E c \in Cells :
             word_hh.sketch[1].rows[r][c] = U64Max

(* ================================ C27 ================================= *)

\* The keys seen so far are no more than the table can hold: nothing was
\* evicted.
TalkersFit ==
    Cardinality({u \in Users : talker_calls[u] > 0}) <= talker_hh.capacity

WordsFit ==
    Cardinality({w \in Words : word_calls[w] > 0}) <= word_hh.capacity

Descending(out, Count(_)) ==
    \A i, j \in DOMAIN out : i < j => Count(out[i]) >= Count(out[j])

ExactTalkers ==
    LET Count(e) == e.message_count
    IN SnapshotHeld /\ TalkersFit =>
          /\ \A i \in DOMAIN stats_out[1].top_talkers :
                stats_out[1].top_talkers[i].message_count
                   = talker_calls[stats_out[1].top_talkers[i].user_id]
          /\ Descending(stats_out[1].top_talkers, Count)

ExactWords ==
    LET Count(e) == e.count
    IN SnapshotHeld /\ WordsFit =>
          /\ \A i \in DOMAIN stats_out[1].word_frequency :
                stats_out[1].word_frequency[i].count
                   = word_calls[stats_out[1].word_frequency[i].word]
          /\ Descending(stats_out[1].word_frequency, Count)

\* C27: as long as the distinct keys seen fit into the table, current_stats
\* is exact: the message_count of every talker and the count of every word
\* it lists is the true number of occurrences, and the entries are in
\* descending order of count.
C27_ExactWithoutEviction == ExactTalkers /\ ExactWords

\* No two words share a cell of the sketch in every row.
NoFullCollision ==
    \A v, w \in Words : v # w => \E r \in Rows : hash[r][v] # hash[r][w]

\* The same for the talkers, and for the words when no two of them share a
\* cell in every row of the sketch.
C27_ExactWithoutCollision ==
    ExactTalkers /\ (NoFullCollision => ExactWords)

\* current_stats lists two talkers and two words.
C27_Listed ==
    /\ SnapshotHeld
    /\ Len(stats_out[1].top_talkers) = 2
    /\ Len(stats_out[1].word_frequency) = 2

(* ================================ C28 ================================= *)

\* The entries other than those of the keys in S are the same in both tables.
OthersUnchanged(before, after, S) ==
    /\ DOMAIN before.counters \ S = DOMAIN after.counters \ S
    /\ \A k \in DOMAIN before.counters \ S : after.counters[k] = before.counters[k]

IsGlobalMinimum(hh, victim) ==
    \A k \in DOMAIN hh.counters :
        hh.counters[victim].count <= hh.counters[k].count

\* hh.increment(key) turned the table before into the table after; Admitted
\* is the count of a key that evicted an entry of count evicted.
IncrementRule(before, after, key, Admitted(_)) ==
    IF key \in DOMAIN before.counters
       THEN /\ after.counters[key].count = before.counters[key].count + 1
            /\ after.counters[key].error = before.counters[key].error
            /\ OthersUnchanged(before, after, {key})
    ELSE IF Cardinality(DOMAIN before.counters) < before.capacity
       THEN /\ key \in DOMAIN after.counters
            /\ after.counters[key].count = 1
            /\ after.counters[key].error = 0
            /\ OthersUnchanged(before, after, {key})
    ELSE \E victim \in DOMAIN before.counters :
            /\ IsGlobalMinimum(before, victim)
            /\ victim \notin DOMAIN after.counters
            /\ key \in DOMAIN after.counters
            /\ after.counters[key].count = Admitted(before.counters[victim].count)
            /\ after.counters[key].error = before.counters[victim].count
            /\ OthersUnchanged(before, after, {key, victim})

\* The key of the increment that returns in this step.
IncrementedTalker(user_id) == talker_calls'[user_id] = talker_calls[user_id] + 1

IncrementedWord(word) == word_calls'[word] = word_calls[word] + 1

TalkerRule ==
    LET Admitted(evicted) == evicted + 1
    IN IncrementsTable /\ aggregator = "talkers" =>
          \A user_id \in Users :
              IncrementedTalker(user_id) =>
                  IncrementRule(talker_hh, talker_hh', user_id, Admitted)

WordRule ==
    IncrementsTable /\ aggregator = "words" =>
        \A word \in Words :
            IncrementedWord(word) =>
                LET Admitted(evicted) ==
                        IF word_hh.sketch = <<>>
                           THEN evicted + 1
                           ELSE MaxOf(evicted + 1,
                                      SketchEstimate(word_hh'.sketch[1], word))
                IN IncrementRule(word_hh, word_hh', word, Admitted)

\* C28: an increment of an unseen key on a full table evicts an entry whose
\* count is the minimum of the table and inserts the key with count =
\* evicted count + 1 and error = evicted count (for words with a sketch,
\* count = max(evicted count + 1, sketch.estimate(key))), leaving every other
\* entry as it was; an increment of a present key adds 1 to that entry only;
\* an increment of an unseen key on a table with room inserts it with count
\* 1 and error 0.
C28_IncrementRule == [][TalkerRule]_vars /\ [][WordRule]_vars

\* A word was admitted with the estimate of the sketch, above the evicted
\* count + 1.
C28_Witness ==
    /\ aggregator = "words"
    /\ word_hh.sketch # <<>>
    /\ \E k \in DOMAIN word_hh.counters :
          /\ word_hh.counters[k].error > 0
          /\ word_hh.counters[k].count > word_hh.counters[k].error + 1

(* ================================ C29 ================================= *)

\* The call added 1 to the cell of the word in every row of the sketch and
\* nothing to any other cell.
SketchCounted(word) ==
    \A r \in DOMAIN word_hh.sketch[1].rows : \A c \in Cells :
        word_hh'.sketch[1].rows[r][c] =
            word_hh.sketch[1].rows[r][c] + (IF c = hash[r][word] THEN 1 ELSE 0)

SketchSeesEveryCall ==
    IncrementsTable /\ aggregator = "words" /\ word_hh.sketch # <<>> =>
        \A word \in Words : IncrementedWord(word) => SketchCounted(word)

SketchNeverUnder ==
    word_hh.sketch # <<>> =>
        \A w \in Words : SketchEstimate(word_hh.sketch[1], w) >= word_calls[w]

EstimatesNeverDecrease ==
    /\ aggregator = "words"
    /\ aggregator' = aggregator
    /\ word_hh.sketch # <<>>
    => \A w \in Words :
          SketchEstimate(word_hh'.sketch[1], w)
             >= SketchEstimate(word_hh.sketch[1], w)

\* C29: every WordHeavyHitters.increment call, be it a hit, an insert or an
\* eviction, adds 1 to the sketch; for every word the estimate of the sketch
\* is at least the number of increment calls made for it, and no estimate
\* ever decreases.
C29_SketchSeesAllNeverUnder ==
    /\ [][SketchSeesEveryCall]_vars
    /\ []SketchNeverUnder
    /\ [][EstimatesNeverDecrease]_vars

\* After a hit and an eviction, the sketch estimates a word above its calls.
C29_Witness ==
    /\ aggregator = "words"
    /\ word_hh.sketch # <<>>
    /\ \E k \in DOMAIN word_hh.counters : word_hh.counters[k].error > 0
    /\ \E w \in Words :
          /\ word_calls[w] >= 2
          /\ SketchEstimate(word_hh.sketch[1], w) > word_calls[w]

(* ================================ C30 ================================= *)

\* Every increment has one outcome: two tables that went through the same
\* calls are equal after the next one too.
TalkerIncrementDetermined ==
    aggregator = "talkers" =>
        \A user_id \in Users, username \in Usernames :
            Cardinality(TalkerIncrement(talker_hh, user_id, username)) = 1

WordIncrementDetermined ==
    aggregator = "words" =>
        \A word \in Words : Cardinality(WordIncrement(word_hh, word)) = 1

\* C30: eviction is deterministic: among several entries of minimal count
\* the victim is fixed by a deterministic order, so that two runs fed the
\* same increments end with the same keys, counts and errors.
C30_EvictionDetermined == TalkerIncrementDetermined /\ WordIncrementDetermined

\* The table is full and more than one entry has the minimal count.
Tie(hh) ==
    /\ Cardinality(DOMAIN hh.counters) = hh.capacity
    /\ Cardinality(MinKeys(hh.counters)) > 1

\* The same for tables without a tie at the minimum.
C30_DeterminedWithoutTie ==
    /\ ~Tie(talker_hh) => TalkerIncrementDetermined
    /\ ~Tie(word_hh) => WordIncrementDetermined

(* ================================ C31 ================================= *)

StartTimeIsFirst == start_time = FirstTimestamp

StartTimeSetOnce ==
    Records =>
        start_time' =
            IF start_time = <<>>
               THEN <<calls'.timestamps[Len(calls'.timestamps)]>>
               ELSE start_time

StartTimeKeptByRead == CurrentStats => start_time' = start_time

StartTimeClearedOnlyByReset ==
    start_time # <<>> /\ start_time' # start_time =>
        /\ start_time' = <<>>
        /\ Reset \/ \E end_time \in Timestamps : Checkpoint(end_time)

\* C31: start_time is the timestamp of the first record_message call; no
\* later record_message, whatever its timestamp, and no current_stats
\* changes it; only checkpoint and reset clear it.
C31_StartTimeImmutable ==
    /\ []StartTimeIsFirst
    /\ [][StartTimeSetOnce]_vars
    /\ [][StartTimeKeptByRead]_vars
    /\ [][StartTimeClearedOnlyByReset]_vars

\* A later message carried an earlier timestamp than the first.
C31_Witness ==
    /\ aggregator = "live"
    /\ start_time # <<>>
    /\ Len(calls.timestamps) >= 2
    /\ calls.timestamps[2] < start_time[1]

(* ================================ C32 ================================= *)

\* How many tokens of the content count for the word, a token counting if
\* it is long enough: those that, in lower case, are the word and are no
\* stop word.
CountedIf(content, word, LongEnough(_)) ==
    Cardinality({i \in DOMAIN content :
                    /\ ToLowercase(content[i]) = word
                    /\ LongEnough(ToLowercase(content[i]))
                    /\ ToLowercase(content[i]) \notin StopWords})

\* What the tokens of the content add to cell c of row r of the sketch.
CellAddsIf(content, r, c, LongEnough(_)) ==
    (IF hash[r]["w1"] = c THEN CountedIf(content, "w1", LongEnough) ELSE 0)
    + (IF hash[r]["w2"] = c THEN CountedIf(content, "w2", LongEnough) ELSE 0)
    + (IF hash[r]["w3"] = c THEN CountedIf(content, "w3", LongEnough) ELSE 0)
    + (IF hash[r]["zi"] = c THEN CountedIf(content, "zi", LongEnough) ELSE 0)

CountOf(hh, key) ==
    IF key \in DOMAIN hh.counters THEN hh.counters[key].count ELSE 0

TalkerAlwaysCounted(m) ==
    LET Admitted(evicted) == evicted + 1
    IN IncrementRule(talker_hh, talker_hh', m.user_id, Admitted)

WordsOfChatCountedIf(m, LongEnough(_)) ==
    IF m.is_gift \/ m.content = <<>>
       THEN word_hh' = word_hh
       ELSE /\ DOMAIN word_hh'.counters =
                  DOMAIN word_hh.counters
                     \cup {w \in Words : CountedIf(m.content, w, LongEnough) > 0}
            /\ \A w \in DOMAIN word_hh'.counters :
                  word_hh'.counters[w].count
                     = CountOf(word_hh, w) + CountedIf(m.content, w, LongEnough)
            /\ \A r \in DOMAIN word_hh.sketch[1].rows : \A c \in Cells :
                  word_hh'.sketch[1].rows[r][c]
                     = word_hh.sketch[1].rows[r][c]
                          + CellAddsIf(m.content, r, c, LongEnough)

RecordCountsTalkerAndWordsIf(LongEnough(_)) ==
    \A m \in Messages :
        RecordMessage(m.user_id, m.username, m.content, m.is_gift, m.timestamp)
            => TalkerAlwaysCounted(m) /\ WordsOfChatCountedIf(m, LongEnough)

TwoCharacters(token) == CharLen(token) >= 2

TwoBytes(token) == ByteLen(token) >= 2

\* C32: record_message always increments the talker table for the user_id of
\* the message; it leaves the word table and its sketch as they are when the
\* message is a gift or its content is empty; for other messages it
\* increments in the word table the tokens, in lower case, of length at
\* least 2 (characters) that are no stop word, and nothing else.
C32_TalkerAlwaysWordsFiltered ==
    [][RecordCountsTalkerAndWordsIf(TwoCharacters)]_vars

\* The same with the length of a token taken in bytes.
C32_TalkerAlwaysWordsFilteredByBytes ==
    [][RecordCountsTalkerAndWordsIf(TwoBytes)]_vars

(* ================================ C38 ================================= *)

\* The sum of the counts of the entries of a table under the keys.
RECURSIVE SumOfCounts(_, _)
SumOfCounts(counters, keys) ==
    IF keys = {} THEN 0
    ELSE LET key == CHOOSE k \in keys : TRUE
         IN counters[key].count + SumOfCounts(counters, keys \ {key})

TalkerSum == SumOfCounts(talker_hh.counters, DOMAIN talker_hh.counters)

TalkerIncrementCalls ==
    talker_calls["u1"] + talker_calls["u2"] + talker_calls["u3"]

BelowSaturation ==
    /\ total_count < U64Max
    /\ \A key \in DOMAIN talker_hh.counters :
          talker_hh.counters[key].count < U64Max

TalkerSumIsCalls ==
    BelowSaturation =>
        /\ TalkerSum = TalkerIncrementCalls
        /\ aggregator = "live" => TalkerSum = total_count

\* C38: in the talker table the sum of the counts of all entries equals the
\* number of increment calls made, and so the aggregator's total_count, after
\* any sequence of record_message calls, with or without evictions, below
\* saturation.
C38_TalkerSumIsCalls == []TalkerSumIsCalls

\* A full table has admitted a user in place of another after four calls.
C38_Witness ==
    /\ aggregator = "talkers"
    /\ BelowSaturation
    /\ TalkerIncrementCalls >= 4
    /\ \E key \in DOMAIN talker_hh.counters : talker_hh.counters[key].error >= 2

(* ================================ C39 ================================= *)

\* The fields of a DanmuStatistics other than end_time and duration_secs.
ReadFields(stats) ==
    <<stats.total_count, stats.chat_count, stats.gift_count, stats.top_talkers,
      stats.word_frequency, stats.rate_timeseries, stats.start_time>>

\* finalize called directly, not by checkpoint: it consumes the aggregator.
FinalizeReturns == Finalizes /\ aggregator' = "finalized"

FinalizeAgreesWithSnapshot ==
    FinalizeReturns /\ SnapshotHeld =>
        /\ ReadFields(stats_out'[1]) = ReadFields(stats_out[1])
        /\ stats_out'[1].end_time # stats_out[1].end_time

\* C39: finalize(end_time) returns the same total, chat and gift counts,
\* top_talkers, word_frequency, rate_timeseries and start_time as
\* current_stats() called immediately before it; the two results differ only
\* in end_time and duration_secs.
C39_ReadsAgree == [][FinalizeAgreesWithSnapshot]_vars

\* current_stats has just returned two talkers, a word, a closed bucket and
\* the open one, and finalize can follow.
C39_Witness ==
    /\ aggregator = "live"
    /\ SnapshotHeld
    /\ Len(stats_out[1].top_talkers) >= 2
    /\ Len(stats_out[1].word_frequency) >= 1
    /\ Len(stats_out[1].rate_timeseries) >= 2
    /\ current_bucket # <<>>
    /\ stats_out[1].top_talkers[1].message_count >= 2

(* ================================ C34 ================================= *)

\* The task of start i executes its collections.remove and finds an entry.
TaskCleanupTakes(i) == task[i].pc = "remove" /\ task'[i].pc = "check"

\* The caller of start i executes the collections.remove of its failed-start
\* cleanup and finds an entry.
CallerCleanupTakes(i) ==
    call[i].pc = "cleanup_remove" /\ call'[i].pc = "cleanup_check"

\* The entry a cleanup of start i takes out of the registry is the one start i
\* inserted; the task persists and sends CollectionStopped only for an entry
\* it took.
CleanupTakesOwnEntry ==
    \A i \in Calls :
        TaskCleanupTakes(i) \/ CallerCleanupTakes(i) =>
            collections[call[i].session_id] = i

\* C34: the task-side and the caller-side cleanup of one start of a session
\* id remove only the registry entry that start created: when the session id
\* has been registered again by a later start_collection, the cleanups of the
\* older start never remove the newer entry, and never send CollectionStopped
\* or persist statistics on its behalf.
C34_CleanupOwnEntryOnly == [][CleanupTakesOwnEntry]_vars

\* With no second registration of a session id while a start of it is under
\* way, every cleanup takes its own entry.
C34_CleanupOwnEntryIfOnlyStart ==
    [][(\A i, j \in Calls :
           i # j /\ call[i].pc # "idle" /\ call[j].pc # "idle"
              => call[i].session_id # call[j].session_id)
         => CleanupTakesOwnEntry]_vars

(* ================================ C35 ================================= *)

\* Every CollectionStopped event of a session comes after the
\* CollectionStarted event of the same start in what event_tx has sent.
StartedBeforeStopped ==
    \A sid \in SessionIds : \A k \in DOMAIN events[sid] :
        events[sid][k].type = "CollectionStopped" =>
            \E j \in 1..(k - 1) :
                /\ events[sid][j].type = "CollectionStarted"
                /\ events[sid][j].inst = events[sid][k].inst

\* C35: for every session the CollectionStarted event is broadcast before any
\* CollectionStopped event of that session, under every interleaving of the
\* start_collection caller and the session task, a task that finishes its run
\* immediately after signalling readiness included.
C35_StartedBeforeStopped == []StartedBeforeStopped

\* Every CollectionStopped event stems from a start whose task has signalled
\* readiness.
C35_StoppedOnlyAfterReady ==
    [](\A sid \in SessionIds : \A k \in DOMAIN events[sid] :
          events[sid][k].type = "CollectionStopped" =>
              ready[events[sid][k].inst] = "ok")

(* ================================ C36 ================================= *)

\* The exit paths of the task that end with done_tx.send.
ExitPaths == {"connect_error", "connect_timeout", "run_ok", "run_error"}

\* The task of start i has sent its terminal result on done.
DoneSent(i) == done[i] \in {"ok", "err"}

\* The events the task of start i has sent.
TaskEvents(i) ==
    {k \in DOMAIN events[call[i].session_id] :
        /\ events[call[i].session_id][k].inst = i
        /\ events[call[i].session_id][k].by = "task"}

\* A task that has left by one of the four paths has sent a result, Ok after
\* a successful run only; a sent result comes from a task that has finished,
\* with its Error event sent and its registry entry gone.
DoneSentAtExit ==
    \A i \in Calls :
        /\ task[i].pc = "exited" /\ task[i].kind \in ExitPaths => DoneSent(i)
        /\ DoneSent(i) =>
              /\ task[i].pc = "exited"
              /\ task[i].kind \in ExitPaths
              /\ done[i] = "ok" <=> task[i].kind = "run_ok"
              /\ collections[call[i].session_id] # i
              /\ task[i].kind # "run_ok" =>
                    Cardinality(EventsFrom(call[i].session_id, "Error", i)) = 1

\* The result is sent once, as the last step of the task, and after it the
\* task sends no event, persists nothing and touches no map.
DoneSentLast ==
    \A i \in Calls :
        /\ done'[i] # done[i] /\ DoneSent(i)' =>
              /\ task[i].pc = "send_done"
              /\ done[i] = "empty"
              /\ UNCHANGED <<registryVars, outputVars>>
        /\ DoneSent(i) =>
              /\ done'[i] = done[i]
              /\ TaskEvents(i)' = TaskEvents(i)
              /\ {q \in persisted' : q.inst = i /\ q.by = "task"}
                    = {q \in persisted : q.inst = i /\ q.by = "task"}

\* C36: every session task sends exactly one terminal result on its done
\* channel on every exit path (connect failure, connect timeout, run success,
\* run error), and only after it has attempted its registry cleanup and sent
\* its Error or CollectionStopped event, so that a stop_collection that
\* receives the done value never sees events of the task arrive afterwards.
C36_OneDoneAfterCleanup == []DoneSentAtExit /\ [][DoneSentLast]_vars

\* A stop_collection call has received the error result of a task whose run
\* failed, and another the statistics of a task that sent CollectionStopped
\* itself before its result.
C36_Witness ==
    /\ \E i \in Calls, p \in StopCallers :
          /\ task[i].kind = "run_error"
          /\ DoneSent(i)
          /\ stop[p].state = i
          /\ stop[p].outcome = "task_error"
    /\ \E i \in Calls :
          /\ task[i].kind = "run_ok"
          /\ DoneSent(i)
          /\ EventsFrom(call[i].session_id, "CollectionStopped", i) # {}
          /\ \A k \in EventsFrom(call[i].session_id, "CollectionStopped", i) :
                events[call[i].session_id][k].by = "task"

(* ================================ C37 ================================= *)

\* Every reverse entry streamer_id -> session_id refers to a session that is
\* registered with that streamer_id.
ReverseConsistent ==
    \A st \in StreamerIds :
        sessions_by_streamer[st] # NoSession =>
            LET sid == sessions_by_streamer[st]
            IN /\ collections[sid] # NoEntry
               /\ StateStreamer(collections[sid]) = st

\* C37: whenever no start, stop or cleanup is in progress the reverse index
\* is consistent with the registry: every reverse entry refers to a session
\* registered with that streamer_id, and no reverse entry survives the
\* removal of the session it points at.
C37_ReverseConsistentAtRest == [](Quiescent => ReverseConsistent)

(* ============ CompressionProcessor::process (compression.rs) ========== *)

\* Number of calls of process explored, one after the other.
MaxRuns == 2

\* Largest number of input files of a call.
MaxInputs == 2

\* clamp_compression_level accepts 0..=9.
MaxLevel == 9

\* compression_level values of a configuration (u8).
Levels == {0, 6, MaxLevel, MaxLevel + 1}

\* The call of process is over for its caller: not started, returned, or its
\* future dropped.
JobOver == job.pc \in {"idle", "ret_ok", "ret_err", "dropped"}

\* return Err(..) of process.
Return(err) == job' = [job EXCEPT !.pc = "ret_err", !.err = err]

\* The closure returns Err(..): its TmpFileGuard is dropped with its path
\* still set, and remove_file takes away whatever is at tmp_path.
WorkerFails(err) ==
    /\ worker' = [worker EXCEPT !.pc = "done", !.result = err]
    /\ tmp_file' = "none"

\* process(input, ctx), up to its first await:
\*   config.compression_level = Self::clamp_compression_level(..)?;
\*   if input.inputs.is_empty() { .. return Err(..) }
\*   let output_path = ..;
Process(inputs, level, overwrite) ==
    /\ JobOver
    /\ worker.pc \in {"none", "done"}
    /\ job' = [run |-> job.run + 1,
               pc |-> IF level > MaxLevel \/ inputs = 0
                         THEN "ret_err" ELSE "create_dir",
               inputs |-> inputs,
               level |-> level,
               overwrite |-> overwrite,
               before |-> output_file,
               err |-> IF level > MaxLevel THEN "invalid_level"
                       ELSE IF inputs = 0 THEN "no_inputs" ELSE "none"]
    /\ worker' = NoWorker
    /\ cancel' = FALSE
    /\ UNCHANGED <<output_file, tmp_file>>
    /\ UNCHANGED <<serviceVars, aggregatorVars>>

\* tokio::fs::create_dir_all(parent).await.map_err(..)?;
CreateDirAll(ok) ==
    /\ job.pc = "create_dir"
    /\ IF ok THEN job' = [job EXCEPT !.pc = "try_exists"] ELSE Return("io")
    /\ UNCHANGED <<output_file, tmp_file, worker, cancel>>
    /\ UNCHANGED <<serviceVars, aggregatorVars>>

\* try_exists that lets every call through, whatever overwrite says.
TryExistsAlwaysOverwrites(ok) ==
    /\ job.pc = "try_exists"
    /\ IF ~ok
          THEN Return("io") /\ UNCHANGED worker
          ELSE /\ job' = [job EXCEPT !.pc = "join"]
               /\ worker' = [worker EXCEPT !.pc = "start"]
    /\ UNCHANGED <<output_file, tmp_file, cancel>>
    /\ UNCHANGED <<serviceVars, aggregatorVars>>

\* let output_exists = tokio::fs::try_exists(&output_path).await.map_err(..)?;
\* if output_exists && !config.overwrite { .. return Err(..) }
\* let tmp_path = tmp_output_path(&output_path);
\* let cancel = ctx.cancellation_token.child_token();
\* let mut cancel_on_drop = CancelOnDrop::new(cancel.clone());
\* tokio::task::spawn_blocking(move || { .. })
TryExists(ok) ==
    /\ job.pc = "try_exists"
    /\ IF ~ok
          THEN Return("io") /\ UNCHANGED worker
       ELSE IF output_file # 0 /\ ~job.overwrite
          THEN Return("exists") /\ UNCHANGED worker
          ELSE /\ job' = [job EXCEPT !.pc = "join"]
               /\ worker' = [worker EXCEPT !.pc = "start"]
    /\ UNCHANGED <<output_file, tmp_file, cancel>>
    /\ UNCHANGED <<serviceVars, aggregatorVars>>

\* let guard = TmpFileGuard::new(tmp_path.clone());
\* if cancel.is_cancelled() { return Err(..) }
WorkerStart ==
    /\ worker.pc = "start"
    /\ IF cancel
          THEN WorkerFails("cancelled")
          ELSE /\ worker' = [worker EXCEPT !.pc = "create", !.guard = "armed"]
               /\ UNCHANGED tmp_file
    /\ UNCHANGED <<output_file, job, cancel>>
    /\ UNCHANGED <<serviceVars, aggregatorVars>>

\* create_zip_archive / create_tar_gz_archive, the beginning:
\*   File::create(output_path) on the temporary path, and the metadata of
\*   every input.
WorkerCreateFile(created, inputs_found) ==
    /\ worker.pc = "create"
    /\ IF created /\ inputs_found
          THEN /\ worker' = [worker EXCEPT !.pc = "add"]
               /\ tmp_file' = "partial"
          ELSE WorkerFails(IF created THEN "input" ELSE "create")
    /\ UNCHANGED <<output_file, job, cancel>>
    /\ UNCHANGED <<serviceVars, aggregatorVars>>

\* The loop over the inputs: if cancel.is_cancelled() { return Err(..) };
\* File::open(input_path); the copy into the archive through
\* CancelProgressReader, whose read fails once the token is cancelled.
WorkerAddInput(ok) ==
    /\ worker.pc = "add"
    /\ worker.added < job.inputs
    /\ IF cancel THEN WorkerFails("cancelled")
       ELSE IF ~ok THEN WorkerFails("input")
       ELSE /\ worker' = [worker EXCEPT !.added = @ + 1]
            /\ UNCHANGED tmp_file
    /\ UNCHANGED <<output_file, job, cancel>>
    /\ UNCHANGED <<serviceVars, aggregatorVars>>

\* zip.finish() / tar.into_inner() and encoder.finish(), then back in the
\* closure: if cancel.is_cancelled() { return Err(..) }
WorkerFinish(ok) ==
    /\ worker.pc = "add"
    /\ worker.added = job.inputs
    /\ IF ~ok THEN WorkerFails("finish")
       ELSE /\ worker' = [worker EXCEPT !.pc = "after"]
            /\ tmp_file' = "complete"
    /\ UNCHANGED <<output_file, job, cancel>>
    /\ UNCHANGED <<serviceVars, aggregatorVars>>

\* if cancel.is_cancelled() { return Err(..) } after the archive is written.
WorkerAfterArchive ==
    /\ worker.pc = "after"
    /\ IF cancel
          THEN WorkerFails("cancelled")
          ELSE /\ worker' = [worker EXCEPT !.pc = "rename"]
               /\ UNCHANGED tmp_file
    /\ UNCHANGED <<output_file, job, cancel>>
    /\ UNCHANGED <<serviceVars, aggregatorVars>>

\* The rename has moved the temporary file onto the output path:
\* guard.commit(); Ok(sizes)
Published ==
    /\ output_file' = job.run
    /\ tmp_file' = "none"
    /\ worker' = [worker EXCEPT !.pc = "done", !.guard = "committed",
                                !.result = "ok"]

\* match std::fs::rename(&tmp_path, &output_path) {
\*   Ok(()) => guard.commit(),
\*   Err(rename_err) => if config.overwrite && output_path.exists() { .. }
\*                      else { return Err(..) } }
WorkerRename(ok) ==
    /\ worker.pc = "rename"
    /\ IF ok THEN Published
       ELSE IF job.overwrite /\ output_file # 0
          THEN /\ worker' = [worker EXCEPT !.pc = "remove_old"]
               /\ UNCHANGED <<output_file, tmp_file>>
          ELSE WorkerFails("rename") /\ UNCHANGED output_file
    /\ UNCHANGED <<job, cancel>>
    /\ UNCHANGED <<serviceVars, aggregatorVars>>

\* std::fs::remove_file(&output_path).map_err(..)?;
WorkerRemoveOld(ok) ==
    /\ worker.pc = "remove_old"
    /\ IF ok
          THEN /\ output_file' = 0
               /\ worker' = [worker EXCEPT !.pc = "rename_again"]
               /\ UNCHANGED tmp_file
          ELSE WorkerFails("remove_file") /\ UNCHANGED output_file
    /\ UNCHANGED <<job, cancel>>
    /\ UNCHANGED <<serviceVars, aggregatorVars>>

\* std::fs::rename(&tmp_path, &output_path).map_err(..)?; guard.commit();
WorkerRenameAgain(ok) ==
    /\ worker.pc = "rename_again"
    /\ IF ok THEN Published
       ELSE WorkerFails("rename") /\ UNCHANGED output_file
    /\ UNCHANGED <<job, cancel>>
    /\ UNCHANGED <<serviceVars, aggregatorVars>>

\* .await of the JoinHandle; cancel_on_drop.disarm(); match result {
\*   Ok(sizes) => .. Ok(ProcessorOutput {..}), Err(e) => return Err(e) }
ProcessJoin ==
    /\ job.pc = "join"
    /\ worker.pc = "done"
    /\ job' = IF worker.result = "ok"
                 THEN [job EXCEPT !.pc = "ret_ok"]
                 ELSE [job EXCEPT !.pc = "ret_err", !.err = worker.result]
    /\ UNCHANGED <<output_file, tmp_file, worker, cancel>>
    /\ UNCHANGED <<serviceVars, aggregatorVars>>

\* The future of process is dropped at one of its awaits; once CancelOnDrop
\* exists its drop cancels the child token. The closure goes on.
ProcessDropped ==
    /\ job.pc \in {"create_dir", "try_exists", "join"}
    /\ job' = [job EXCEPT !.pc = "dropped"]
    /\ cancel' = (cancel \/ job.pc = "join")
    /\ UNCHANGED <<output_file, tmp_file, worker>>
    /\ UNCHANGED <<serviceVars, aggregatorVars>>

\* ctx.cancellation_token is cancelled by the owner of the job; the child
\* token is cancelled with it.
CancelJob ==
    /\ ~JobOver
    /\ ~cancel
    /\ cancel' = TRUE
    /\ UNCHANGED <<output_file, tmp_file, job, worker>>
    /\ UNCHANGED <<serviceVars, aggregatorVars>>

CompressionNext ==
    \/ \E inputs \in 0..MaxInputs, level \in Levels, overwrite \in BOOLEAN :
          job.run < MaxRuns /\ Process(inputs, level, overwrite)
    \/ \E ok \in BOOLEAN : CreateDirAll(ok)
    \/ \E ok \in BOOLEAN : TryExists(ok)
    \/ WorkerStart
    \/ \E created, inputs_found \in BOOLEAN :
          WorkerCreateFile(created, inputs_found)
    \/ \E ok \in BOOLEAN : WorkerAddInput(ok)
    \/ \E ok \in BOOLEAN : WorkerFinish(ok)
    \/ WorkerAfterArchive
    \/ \E ok \in BOOLEAN : WorkerRename(ok)
    \/ \E ok \in BOOLEAN : WorkerRemoveOld(ok)
    \/ \E ok \in BOOLEAN : WorkerRenameAgain(ok)
    \/ ProcessJoin
    \/ ProcessDropped
    \/ CancelJob

CompressionSpec == Init /\ [][CompressionNext]_vars

(* ================================ C33 ================================= *)

\* The call is one process has to reject: no input, a compression level
\* above 9, or an archive at the output path with overwrite off.
MustReject ==
    /\ job.run > 0
    /\ \/ job.inputs = 0
       \/ job.level > MaxLevel
       \/ job.before # 0 /\ ~job.overwrite

\* Such a call never gets to the archive: it returns an error (unless its
\* future is dropped first), no worker runs for it, nothing is at the
\* temporary path and the output path holds what it held at the call.
RejectedTouchesNothing ==
    MustReject =>
        /\ job.pc \in {"create_dir", "try_exists", "ret_err", "dropped"}
        /\ job.inputs = 0 \/ job.level > MaxLevel =>
              job.pc = "ret_err" /\ job.err \in {"no_inputs", "invalid_level"}
        /\ worker.pc = "none"
        /\ tmp_file = "none"
        /\ output_file = job.before

\* The existence check of a call that has to be rejected ends the call with
\* the error about the existing archive.
ExistingArchiveRejected ==
    MustReject /\ job.pc = "try_exists" /\ job'.pc # "dropped"
        /\ job' # job /\ job'.run = job.run =>
            job'.pc = "ret_err" /\ job'.err \in {"exists", "io"}

\* C33: process returns an error and creates or modifies no file at the
\* output path when the input list is empty, when compression_level is above
\* 9, or when the output archive exists and overwrite is false; the existing
\* archive stays as it was.
C33_RejectedWithoutEffect ==
    []RejectedTouchesNothing /\ [][ExistingArchiveRejected]_vars

\* A second call with overwrite off was rejected because of the archive the
\* first call published, and the archive is still that of the first call.
C33_Witness ==
    /\ job.run = 2
    /\ job.pc = "ret_err"
    /\ job.err = "exists"
    /\ ~job.overwrite
    /\ output_file = 1

(* ================================ C40 ================================= *)

\* process has returned an error, or its closure has ended with one (the
\* cancelled closure of a call whose future was dropped has no one to return
\* it to).
EndedInError ==
    \/ job.pc = "ret_err"
    \/ worker.pc = "done" /\ worker.result # "ok"

\* The output path gets a new content only by the rename of a complete
\* temporary file.
PublishedByRename ==
    output_file' # output_file /\ output_file' # 0 =>
        /\ worker.pc \in {"rename", "rename_again"}
        /\ tmp_file = "complete"
        /\ tmp_file' = "none"
        /\ output_file' = job.run

\* The guard is committed only once the archive of this call is at the
\* output path.
CommittedAfterRename ==
    worker.guard = "committed" =>
        worker.result = "ok" /\ output_file = job.run /\ tmp_file = "none"

\* C40: process publishes the archive only by renaming a completed temporary
\* file onto the output path; whenever it returns an error or is cancelled
\* (before, during or after the creation of the archive, or on a failed
\* rename) the temporary file has been removed and the output path holds
\* what it held before the call; the temporary file is kept (the guard
\* committed) only after a successful rename.
C40_AtomicPublish ==
    /\ [](EndedInError => tmp_file = "none" /\ output_file = job.before)
    /\ [][PublishedByRename]_vars
    /\ []CommittedAfterRename

\* The same, except that after a rename that failed on an existing archive
\* the old archive is gone when the second rename fails as well.
C40_AtomicPublishUnlessRenamedTwice ==
    /\ [](EndedInError =>
             /\ tmp_file = "none"
             /\ \/ output_file = job.before
                \/ /\ worker.result = "rename"
                   /\ job.overwrite
                   /\ job.before # 0
                   /\ output_file = 0)
    /\ [][PublishedByRename]_vars
    /\ []CommittedAfterRename

====
